---- MODULE Spec2Model ----
(***************************************************************************)
(* State-machine model of the AWS IoT FleetWise Edge agent's Policy        *)
(* Manager (CollectionSchemeManager): the single-slot mailboxes filled by  *)
(* onDecoderManifestUpdate / onCollectionSchemeUpdate, and the worker      *)
(* thread doWork with processDecoderManifest, processCollectionScheme,     *)
(* rebuildMapsandTimeLine, updateMapsandTimeLine, checkTimeLine and        *)
(* updateCheckinDocuments.                                                 *)
(***************************************************************************)
EXTENDS Integers, Sequences, FiniteSets, TLC

(* ------------------------------ bounds --------------------------------- *)

\* the wall clock runs over 0..MaxTime; scheme start/expiry times lie in it
MaxTime == 3
\* number of calls of onDecoderManifestUpdate in a behaviour
MaxDmPosts == 2
\* number of calls of onCollectionSchemeUpdate in a behaviour
MaxCsPosts == 2
\* signal IDs run over 1..MaxSignalID
MaxSignalID == 3
\* a scheme of a built list has up to MaxSignalInformation signal references
MaxSignalInformation == 2
\* frames one recvmmsg call takes from the kernel (10 in the program)
PARALLEL_RECEIVED_FRAMES_FROM_KERNEL == 2
\* the socket delivers frames in the first MaxRecvCalls calls of recvmmsg
MaxRecvCalls == 3
\* frame timestamps run over 1..MaxTimestamp
MaxTimestamp == 2
\* the bus delivers up to MaxFrames frames to the ECU discovery
MaxFrames == 2
\* the retry timer of the Sender Worker is read up to MaxElapsedMs
MaxElapsedMs == 3
\* payloads waiting in the queues of the Sender Worker
MaxQueued == 1
\* the calls of checkAndSendRetrievedData are counted up to MaxUploads
MaxUploads == 2
\* the number of bits of uint32_t in the calculation of the wait time (32 in the
\* program)
UINT32_WIDTH == 3
\* the clock and the Timeline of the wait time calculation run over 0..MaxTimeMs
MaxTimeMs == 17
\* the P2 timeout of the ISO-TP requests in ms (1000 in the program)
P2_TIMEOUT_DEFAULT_MS == 3
\* flush runs over up to MaxECUs ECUs
MaxECUs == 3
\* flush is called for up to MaxCount requests
MaxCount == 2

(* ------------------------------ values --------------------------------- *)

\* scheme IDs in a fixed order (the order a received list is written in)
IdSeq == <<"P1", "P2">>

SchemeIDs == {IdSeq[i] : i \in 1..Len(IdSeq)}

ManifestIDs == {"DM1", "DM2"}

\* decoder manifest IDs a scheme may reference
SchemeManifestIDs == {"DM1"}

Times == 0..MaxTime

\* ICollectionScheme: ID, decoder manifest ID, start time, expiry time
\* (data model invariant: start_time < expiry_time)
Schemes ==
    {cs \in [id : SchemeIDs, dm : SchemeManifestIDs, start : Times, expiry : Times] :
        cs.start < cs.expiry}

\* position of a scheme ID in IdSeq
Rank(id) == CHOOSE i \in 1..Len(IdSeq) : IdSeq[i] = id

\* the scheme vectors a built list can hold: distinct IDs, written in IdSeq order
SchemeVectors ==
    {v \in UNION {[1..n -> Schemes] : n \in 0..Len(IdSeq)} :
        \A i, j \in DOMAIN v : i < j => Rank(v[i].id) < Rank(v[j].id)}

\* a shared_ptr<IDecoderManifest>: ptr = 0 is nullptr, otherwise the identity of
\* the posted object; ok is the result of build(), id the result of getID()
NullDM == [ptr |-> 0, id |-> "", ok |-> FALSE]

\* a shared_ptr<ICollectionSchemeList>: ptr = 0 is nullptr; ok is the result of
\* build(), schemes the result of getCollectionSchemes()
NullCS == [ptr |-> 0, ok |-> FALSE, schemes |-> <<>>]

\* Timeline entries (time, id)
Entries == Times \X SchemeIDs

NoUpdate == [old |-> -1, new |-> -1]

(* ------------------------------ state ---------------------------------- *)

VARIABLES
    now,                                \* mClock: wall clock
    pc,                                 \* position of the manager thread in doWork
    mDecoderManifestInput,              \* mailbox slot (guarded by mSchemaUpdateMutex)
    mDecoderManifestAvailable,
    mCollectionSchemeListInput,
    mCollectionSchemeAvailable,
    mWaitNotify,                        \* mWait: the Signal's notify flag
    mDecoderManifest,
    mCollectionSchemeList,
    mProcessDecoderManifest,
    mProcessCollectionScheme,
    mCurrentDecoderManifestID,
    mEnabledCollectionSchemeMap,
    mIdleCollectionSchemeMap,
    mTimeLine,                          \* priority queue as a bag: entry -> count
    decoderManifestChanged,             \* locals of doWork
    enabledCollectionSchemeMapChanged,
    initialCheckinDocumentsUpdate,
    checkTime,
    ret,                                \* local of checkTimeLine
    persistedDecoderManifest,           \* persistency: stored documents
    persistedCollectionSchemeList,
    errorCount,                         \* TraceAtomicVariable::COLLECTION_SCHEME_ERROR
    checkinMsg,                         \* last list given to onCheckinDocumentsChanged
    activeCollectionSchemes,            \* last list given to the scheme list listeners
    passLog,                            \* listener calls and extractions of the current pass
    dmPosts,                            \* calls of onDecoderManifestUpdate so far
    csPosts,                            \* calls of onCollectionSchemeUpdate so far
    dmOverwritten,                      \* history: manifests overwritten in the slot while pending
    dmBuilt,                            \* history: manifests build() was called on
    csOverwritten,                      \* history: lists overwritten in the slot while pending
    csBuilt,                            \* history: lists build() was called on
    expiryUpdate,                       \* history: last expiry change of an Enabled scheme, per ID
    transitions,                        \* history: the changes of the Enabled map so far
    rejected,                           \* history: null and unbuildable inputs found pending
    decoderManifestFormats,             \* extraction input: the decoding rule of each signal
    collectSignals,                     \* extraction input: state and signals of each scheme
    decoderDictionaryMap,               \* extraction output: one dictionary per protocol
    signalInformation,                  \* build input: the signal references of each scheme
    partialSignalIDLookup,              \* build: (signal ID, signal path) -> internal signal ID
    collectSignalIDs,                   \* build output: getCollectSignals() IDs of each scheme
    canPc,                              \* position of the CAN reader thread in doWork
    mDecoderDictionary,                 \* CANDataSource: active dictionary (guarded by mDecoderDictMutex)
    canWaitNotify,                      \* CANDataSource::mWait: a notify is pending
    canShouldStop,                      \* CANDataSource::mShouldStop
    decoderDictionary,                  \* doWork local: the dictionary of this iteration
    wokeUpFromSleep,                    \* doWork local
    lastFrameTime,                      \* doWork local
    msg,                                \* doWork local: timestamps of the frames of the batch
    nmsgs,                              \* doWork local: result of recvmmsg
    errno,                              \* errno after recvmmsg
    msgIndex,                           \* doWork local: i of the loop over the batch
    mReceivedMessages,                  \* CANDataSource: frames passed on
    notTimeMonotonicFrames,             \* TraceAtomicVariable::NOT_TIME_MONOTONIC_FRAMES
    processMessage,                     \* the latest call of mConsumer.processMessage
    canLog,                             \* what the latest recvmmsg made the reader report
    recvCalls,                          \* history: calls of recvmmsg
    readWhileNull,                      \* history: the batch was read while mDecoderDictionary was null
    batchesSinceWake,                   \* history: batches read since the wake-up from the sleep (-1: never
                                        \* slept; counted up to MaxRecvCalls)
    drained,                            \* history: a batch since the wake-up was not full
    networkWasDown,                     \* history: a recvmmsg call failed with ENETDOWN or ENETUNREACH
    obdPc,                              \* position of the OBD module thread in doWork
    obdShouldStop,                      \* OBDOverCANModule::mShouldStop
    obdWaitNotify,                      \* OBDOverCANModule::mWait: a notify is pending
    mDataAvailableWaitNotify,           \* OBDOverCANModule::mDataAvailableWait: a notify is pending
    obdDecoderDictionaryEmpty,          \* OBDOverCANModule::mDecoderDictionary.empty()
    mShouldRequestDTCs,                 \* OBDOverCANModule::mShouldRequestDTCs
    obdDecoderManifestAvailable,        \* OBDOverCANModule::mDecoderManifestAvailable
    mPIDRequestIntervalSeconds,         \* OBDOverCANModule: 0 switches the PID requests off
    mDTCRequestIntervalSeconds,         \* OBDOverCANModule: 0 switches the DTC requests off
    sleepTime,                          \* OBDOverCANModule::doWork local: "max" is INT64_MAX
    isExtendedID,                       \* OBDOverCANModule::doWork local
    canIDResponses,                     \* OBDOverCANModule::doWork local: the accepted rx IDs
    framesLeft,                         \* frames the bus still delivers to autoDetectECUs
    attempts,                           \* history: the autoDetectECUs calls of this round
    mECUs,                              \* OBDOverCANModule::mECUs
    hasAcquiredSupportedPIDs,           \* OBDOverCANModule::doWork local
    mPIDsRequestedByDecoderDict,        \* OBDOverCANModule: the PIDs of SID::CURRENT_STATS
    mPIDAssigned,                       \* OBDOverCANModule::mPIDAssigned
    ecuIO,                              \* history: the threads that did I/O on an ECU socket
    dtcCycle,                           \* history: what the latest expiry of the DTC timer did
    senderPc,                           \* position of the Sender Worker thread in doWork
    senderShouldStop,                   \* DataSenderManagerWorkerThread::mShouldStop
    senderWaitNotify,                   \* DataSenderManagerWorkerThread::mWait: a notify is pending
    mPersistencyUploadRetryIntervalMs,  \* DataSenderManagerWorkerThread: 0 switches the retry off
    mRetrySendingPersistedDataTimer,    \* ms since the reset of the timer, up to MaxElapsedMs
    uploadedPersistedDataOnce,          \* DataSenderManagerWorkerThread::doWork local
    minTimeToWaitMs,                    \* DataSenderManagerWorkerThread::doWork local
    connectivityAlive,                  \* what mConnectivityModule.isAlive() returns
    mDataToSendQueues,                  \* payloads waiting in the queues
    persistedPayloads,                  \* payloads the persistency holds
    uploadCheck,                        \* history: the check for persisted data of the latest iteration
    checkAndSendRetrievedDataCalls,     \* history: calls of checkAndSendRetrievedData, up to MaxUploads
    waitCall,                           \* wait time calculation: Timeline top, clock and mIdleTimeMs
    waitResult,                         \* wait time calculation: the wait that is made
    flushCall,                          \* OBDOverCANModule::flush: mBroadcastRequests, mECUs, exceptECU, count
    flushPc,                            \* position of flush
    flushEcu,                           \* flush: position of ecu in mECUs
    flushI,                             \* flush local i
    timeLeftMs,                         \* flush local
    ecuFlushCalls,                      \* history: the number of calls of ecu->flush, for each ECU
    ecuFlush,                           \* history: the latest call of ecu->flush: time given and reported
    mShouldStop,                        \* CollectionSchemeManager::mShouldStop
    stopPc,                             \* position of the thread that calls stop()
    stopFound                           \* history: where the worker was when stop() was called

mailboxVars ==
    <<mDecoderManifestInput, mDecoderManifestAvailable, mCollectionSchemeListInput,
      mCollectionSchemeAvailable, dmPosts, csPosts, dmOverwritten, csOverwritten>>

takenVars ==
    <<mDecoderManifest, mCollectionSchemeList, mProcessDecoderManifest, mProcessCollectionScheme>>

mapVars == <<mEnabledCollectionSchemeMap, mIdleCollectionSchemeMap, mTimeLine>>

localVars ==
    <<decoderManifestChanged, enabledCollectionSchemeMapChanged, initialCheckinDocumentsUpdate,
      checkTime, ret>>

outVars ==
    <<persistedDecoderManifest, persistedCollectionSchemeList, errorCount, checkinMsg,
      activeCollectionSchemes, passLog>>

\* the variables of the Policy Manager
managerVars ==
    <<now, pc, mWaitNotify, mCurrentDecoderManifestID, mailboxVars, takenVars, mapVars,
      localVars, outVars, dmBuilt, csBuilt, expiryUpdate, transitions, rejected>>

\* the variables of the decoder dictionary extraction
extractVars == <<decoderManifestFormats, collectSignals, decoderDictionaryMap>>

\* the variables that no step of the Policy Manager touches
partialVars == <<signalInformation, partialSignalIDLookup, collectSignalIDs>>

canSharedVars == <<mDecoderDictionary, canWaitNotify, canShouldStop>>

canLocalVars == <<decoderDictionary, wokeUpFromSleep, lastFrameTime, msg, nmsgs, errno, msgIndex>>

canOutVars == <<mReceivedMessages, notTimeMonotonicFrames, processMessage, canLog>>

canHistoryVars == <<recvCalls, readWhileNull, batchesSinceWake, drained, networkWasDown>>

canVars == <<canPc, canSharedVars, canLocalVars, canOutVars, canHistoryVars>>

\* the ECU discovery and the ECUs of the OBD module
obdEcuVars == <<isExtendedID, canIDResponses, framesLeft, attempts, mECUs,
                hasAcquiredSupportedPIDs, mPIDsRequestedByDecoderDict, mPIDAssigned, ecuIO,
                dtcCycle>>

obdVars == <<obdPc, obdShouldStop, obdWaitNotify, mDataAvailableWaitNotify,
             obdDecoderDictionaryEmpty, mShouldRequestDTCs, obdDecoderManifestAvailable,
             mPIDRequestIntervalSeconds, mDTCRequestIntervalSeconds, sleepTime, obdEcuVars>>

\* the variables of the Sender Worker
senderVars == <<senderPc, senderShouldStop, senderWaitNotify,
                mPersistencyUploadRetryIntervalMs, mRetrySendingPersistedDataTimer,
                uploadedPersistedDataOnce, minTimeToWaitMs, connectivityAlive,
                mDataToSendQueues, persistedPayloads, uploadCheck,
                checkAndSendRetrievedDataCalls>>

\* the variables of the wait time calculation of the Policy Manager
waitVars == <<waitCall, waitResult>>

\* the variables of OBDOverCANModule::flush
flushVars == <<flushCall, flushPc, flushEcu, flushI, timeLeftMs, ecuFlushCalls, ecuFlush>>

stopVars == <<mShouldStop, stopPc, stopFound>>

nonManagerVars == <<extractVars, partialVars, canVars, obdVars, senderVars, waitVars, flushVars,
                    stopVars>>

vars == <<managerVars, nonManagerVars>>

\* no decoder dictionary extraction is looked at
ExtractorUnused ==
    /\ decoderManifestFormats = <<>>
    /\ collectSignals = <<>>
    /\ decoderDictionaryMap = <<>>

\* a processMessage call that did not happen
NoCall == [dictionary |-> "none", timestamp |-> 0, readWhileNull |-> FALSE]

\* CANDataSource after construction; thread says where its thread is, calls how
\* many recvmmsg calls the socket has answered before
CANDataSourceInit(thread, calls) ==
    /\ canPc = thread
    /\ mDecoderDictionary = "nullptr"
    /\ canWaitNotify = FALSE
    /\ canShouldStop = FALSE
    /\ decoderDictionary = "nullptr"
    /\ wokeUpFromSleep = FALSE
    /\ lastFrameTime = 0
    /\ msg = <<>>
    /\ nmsgs = 0
    /\ errno = "0"
    /\ msgIndex = 0
    /\ mReceivedMessages = 0
    /\ notTimeMonotonicFrames = 0
    /\ processMessage = NoCall
    /\ canLog = ""
    /\ recvCalls = calls
    /\ readWhileNull = FALSE
    /\ batchesSinceWake = -1
    /\ drained = FALSE
    /\ networkWasDown = FALSE

\* no CAN data source was started
CANDataSourceUnused == CANDataSourceInit("off", 0)

\* OBDOverCANModule after construction with the two request intervals; thread
\* says where its thread is
OBDOverCANModuleInit(thread, pidInterval, dtcInterval) ==
    /\ obdPc = thread
    /\ obdShouldStop = FALSE
    /\ obdWaitNotify = FALSE
    /\ mDataAvailableWaitNotify = FALSE
    /\ obdDecoderDictionaryEmpty = TRUE
    /\ mShouldRequestDTCs = FALSE
    /\ obdDecoderManifestAvailable = FALSE
    /\ mPIDRequestIntervalSeconds = pidInterval
    /\ mDTCRequestIntervalSeconds = dtcInterval
    /\ sleepTime = "none"

\* a DTC timer expiry that did not happen
NoDTCCycle ==
    [expired |-> FALSE, enabled |-> FALSE, requested |-> {}, successful |-> FALSE,
     pushed |-> <<>>]

\* the ECUs of an OBDOverCANModule after construction: none is known; frames says
\* how many frames the bus delivers to the discovery
OBDOverCANECUsInit(frames) ==
    /\ isExtendedID = FALSE
    /\ canIDResponses = <<>>
    /\ framesLeft = frames
    /\ attempts = <<>>
    /\ mECUs = <<>>
    /\ hasAcquiredSupportedPIDs = FALSE
    /\ mPIDsRequestedByDecoderDict = {}
    /\ mPIDAssigned = {}
    /\ ecuIO = {}
    /\ dtcCycle = NoDTCCycle

\* no OBD module was started
OBDOverCANModuleUnused == OBDOverCANModuleInit("off", 0, 0) /\ OBDOverCANECUsInit(0)

\* an iteration of the Sender Worker that did not happen
NoUploadCheck ==
    [due |-> FALSE, alive |-> FALSE, called |-> FALSE, elapsedMs |-> 0,
     uploadedBefore |-> FALSE, retrieved |-> {}]

\* DataSenderManagerWorkerThread after construction with the retry interval, with
\* payloads in the persistency; thread says where its thread is
DataSenderManagerWorkerThreadInit(thread, retryIntervalMs, payloads) ==
    /\ senderPc = thread
    /\ senderShouldStop = FALSE
    /\ senderWaitNotify = FALSE
    /\ mPersistencyUploadRetryIntervalMs = retryIntervalMs
    /\ mRetrySendingPersistedDataTimer = 0
    /\ uploadedPersistedDataOnce = FALSE
    /\ minTimeToWaitMs = [timed |-> FALSE, ms |-> 0]
    /\ connectivityAlive = FALSE
    /\ mDataToSendQueues = 0
    /\ persistedPayloads = payloads
    /\ uploadCheck = NoUploadCheck
    /\ checkAndSendRetrievedDataCalls = 0

\* no Sender Worker was started
DataSenderManagerWorkerThreadUnused == DataSenderManagerWorkerThreadInit("off", 0, {})

\* no wait was calculated
NoWait == [kind |-> "none", ms |-> 0]

\* no wait time calculation is looked at
WaitUnused ==
    /\ waitCall = [empty |-> TRUE, top |-> 0, currentSystemTime |-> 0, mIdleTimeMs |-> 0]
    /\ waitResult = NoWait

\* a call of flush that did not happen
NoFlush == [mBroadcastRequests |-> FALSE, mECUs |-> 0, exceptECU |-> 0, count |-> 0]

\* a call of ecu->flush that did not happen
NoDrain == [timeLeftMs |-> 0, timeNeededMs |-> 0]

\* no flush is looked at
FlushUnused ==
    /\ flushCall = NoFlush
    /\ flushPc = "off"
    /\ flushEcu = 0
    /\ flushI = 0
    /\ timeLeftMs = 0
    /\ ecuFlushCalls = <<>>
    /\ ecuFlush = NoDrain

\* stop() is called on no worker
StopUnused ==
    /\ mShouldStop = FALSE
    /\ stopPc = "idle"
    /\ stopFound = ""

\* no scheme list with partial signals is looked at
PartialSignalsUnused ==
    /\ signalInformation = <<>>
    /\ partialSignalIDLookup = {}
    /\ collectSignalIDs = <<>>

(* ------------------------------ helpers -------------------------------- *)

EmptyMap == [x \in {} |-> NullCS]

Put(m, k, v) == [x \in (DOMAIN m) \cup {k} |-> IF x = k THEN v ELSE m[x]]

Erase(m, k) == [x \in (DOMAIN m) \ {k} |-> m[x]]

Range(s) == {s[i] : i \in DOMAIN s}

\* mTimeLine.push( { time, id } )
Push(tl, t, id) == [tl EXCEPT ![<<t, id>>] = @ + 1]

\* mTimeLine.pop() of the entry e that is on top
Pop(tl, e) == [tl EXCEPT ![e] = @ - 1]

TimeLineEmpty(tl) == \A e \in Entries : tl[e] = 0

\* the entries that can be mTimeLine.top(): those with the least time
TopEntries(tl) ==
    {e \in Entries : tl[e] > 0 /\ \A f \in Entries : tl[f] > 0 => e[1] <= f[1]}

TopTime(tl) == (CHOOSE e \in TopEntries(tl) : TRUE)[1]

(* ------------------- rebuildMapsandTimeLine (pure part) ----------------- *)

\* the maps, the Timeline and the local `ret` that the three functions work on
MapState(enabled, idle, timeline, r) ==
    [enabled |-> enabled, idle |-> idle, timeline |-> timeline, ret |-> r]

\* one iteration of the loop of rebuildMapsandTimeLine
rebuildScheme(st, cs, t) ==
    IF cs.start > t
    THEN [st EXCEPT !.idle = Put(@, cs.id, cs),
                    !.timeline = Push(Push(@, cs.start, cs.id), cs.expiry, cs.id)]
    ELSE IF cs.expiry > t
    THEN [st EXCEPT !.enabled = Put(@, cs.id, cs),
                    !.timeline = Push(@, cs.expiry, cs.id),
                    !.ret = TRUE]
    ELSE st

RECURSIVE rebuildLoop(_, _, _, _)
rebuildLoop(st, list, i, t) ==
    IF i > Len(list) THEN st ELSE rebuildLoop(rebuildScheme(st, list[i], t), list, i + 1, t)

rebuildMapsandTimeLine(st, list, t) == rebuildLoop(st, list, 1, t)

(* ------------------- updateMapsandTimeLine (pure part) ------------------ *)

\* variant: an Enabled scheme whose new start time lies in the future goes back to
\* the Idle map
updateEnabledSchemeToIdle(st, cs, t) ==
    IF cs.expiry <= t
    THEN [st EXCEPT !.enabled = Erase(@, cs.id), !.ret = TRUE]
    ELSE IF cs.start > t
    THEN [st EXCEPT !.enabled = Erase(@, cs.id),
                    !.idle = Put(@, cs.id, cs),
                    !.timeline = Push(Push(@, cs.start, cs.id), cs.expiry, cs.id),
                    !.ret = TRUE]
    ELSE [st EXCEPT !.enabled = Put(@, cs.id, cs),
                    !.timeline = Push(@, cs.expiry, cs.id),
                    !.ret = TRUE]

\* variant: a changed expiry time is stored without a new Timeline entry
updateEnabledSchemeNoPush(st, cs, t) ==
    LET currCollectionScheme == st.enabled[cs.id] IN
    IF cs.expiry <= t
    THEN [st EXCEPT !.enabled = Erase(@, cs.id), !.ret = TRUE]
    ELSE IF cs # currCollectionScheme
    THEN [st EXCEPT !.enabled = Put(@, cs.id, cs), !.ret = TRUE]
    ELSE st

\* the scheme is found in the Enabled map: only its stop time is looked at
updateEnabledScheme(st, cs, t) ==
    LET currCollectionScheme == st.enabled[cs.id] IN
    IF cs.expiry <= t
    THEN [st EXCEPT !.enabled = Erase(@, cs.id), !.ret = TRUE]
    ELSE LET s1 == IF cs.expiry # currCollectionScheme.expiry
                   THEN [st EXCEPT !.enabled = Put(@, cs.id, cs),
                                   !.timeline = Push(@, cs.expiry, cs.id)]
                   ELSE st
         IN  IF cs # currCollectionScheme
             THEN [s1 EXCEPT !.enabled = Put(@, cs.id, cs), !.ret = TRUE]
             ELSE s1

\* variant: an Idle scheme whose start has come is enabled without looking at its
\* expiry time
updateIdleSchemeAnyExpiry(st, cs, t) ==
    IF cs.start <= t
    THEN [st EXCEPT !.idle = Erase(@, cs.id),
                    !.enabled = Put(@, cs.id, cs),
                    !.ret = TRUE,
                    !.timeline = Push(@, cs.expiry, cs.id)]
    ELSE [st EXCEPT !.idle = Put(@, cs.id, cs)]

\* the scheme is found in the Idle map
updateIdleScheme(st, cs, t) ==
    LET currCollectionScheme == st.idle[cs.id] IN
    IF cs.start <= t /\ cs.expiry > t
    THEN [st EXCEPT !.idle = Erase(@, cs.id),
                    !.enabled = Put(@, cs.id, cs),
                    !.ret = TRUE,
                    !.timeline = Push(@, cs.expiry, cs.id)]
    ELSE IF cs.start > t /\ (cs.start # currCollectionScheme.start
                                \/ cs.expiry # currCollectionScheme.expiry)
    THEN [st EXCEPT !.idle = Put(@, cs.id, cs),
                    !.timeline = Push(Push(@, cs.start, cs.id), cs.expiry, cs.id)]
    ELSE [st EXCEPT !.idle = Put(@, cs.id, cs)]

\* variant: a new scheme is enabled without looking at its start time
addNewSchemeAnyStart(st, cs, t) ==
    IF cs.expiry > t
    THEN [st EXCEPT !.enabled = Put(@, cs.id, cs),
                    !.timeline = Push(@, cs.expiry, cs.id),
                    !.ret = TRUE]
    ELSE st

\* the scheme is in neither map
addNewScheme(st, cs, t) ==
    IF cs.start <= t /\ cs.expiry > t
    THEN [st EXCEPT !.enabled = Put(@, cs.id, cs),
                    !.timeline = Push(@, cs.expiry, cs.id),
                    !.ret = TRUE]
    ELSE IF cs.start > t
    THEN [st EXCEPT !.idle = Put(@, cs.id, cs),
                    !.timeline = Push(Push(@, cs.start, cs.id), cs.expiry, cs.id)]
    ELSE st

\* one iteration of the first loop of updateMapsandTimeLine
updateScheme(st, cs, t) ==
    IF cs.id \in DOMAIN st.enabled THEN updateEnabledScheme(st, cs, t)
    ELSE IF cs.id \in DOMAIN st.idle THEN updateIdleScheme(st, cs, t)
    ELSE addNewScheme(st, cs, t)

RECURSIVE updateLoop(_, _, _, _)
updateLoop(st, list, i, t) ==
    IF i > Len(list) THEN st ELSE updateLoop(updateScheme(st, list[i], t), list, i + 1, t)

\* variant: the erasing of the missing schemes leaves ret as it is
removeMissingRetKept(st, newCollectionSchemeIDs) ==
    [st EXCEPT !.idle = [x \in (DOMAIN st.idle) \cap newCollectionSchemeIDs |-> st.idle[x]],
               !.enabled = [x \in (DOMAIN st.enabled) \cap newCollectionSchemeIDs |->
                               st.enabled[x]]]

\* the two loops that erase the schemes missing from newCollectionSchemeIDs
removeMissing(st, newCollectionSchemeIDs) ==
    [st EXCEPT !.idle = [x \in (DOMAIN st.idle) \cap newCollectionSchemeIDs |-> st.idle[x]],
               !.enabled = [x \in (DOMAIN st.enabled) \cap newCollectionSchemeIDs |->
                               st.enabled[x]],
               !.ret = st.ret \/ ~((DOMAIN st.enabled) \subseteq newCollectionSchemeIDs)]

updateMapsandTimeLine(st, list, t) ==
    removeMissing(updateLoop(st, list, 1, t), {list[i].id : i \in DOMAIN list})

isCollectionSchemeLoaded ==
    mEnabledCollectionSchemeMap # EmptyMap \/ mIdleCollectionSchemeMap # EmptyMap

(* --------------------------- checkTimeLine ------------------------------ *)

\* the time a popped entry for id must carry to be valid: the expiry of an Enabled
\* scheme, the start of an Idle one (the Enabled map is searched first)
timeOfInterest(st, id) ==
    IF id \in DOMAIN st.enabled THEN st.enabled[id].expiry ELSE st.idle[id].start

\* variant: the time of a popped entry is not compared with the scheme's time
checkTopPairAnyTime(st, e, t) ==
    LET id == e[2]
        topTime == e[1]
        popped == [st EXCEPT !.timeline = Pop(@, e)]
    IN  IF id \notin DOMAIN st.enabled /\ id \notin DOMAIN st.idle
        THEN [st |-> popped, brk |-> FALSE]
        ELSE IF topTime <= t
        THEN IF id \notin DOMAIN st.enabled
             THEN [st |-> [popped EXCEPT !.ret = TRUE,
                                         !.enabled = Put(@, id, st.idle[id]),
                                         !.idle = Erase(@, id)],
                   brk |-> FALSE]
             ELSE [st |-> [popped EXCEPT !.ret = TRUE, !.enabled = Erase(@, id)],
                   brk |-> FALSE]
        ELSE [st |-> st, brk |-> TRUE]

\* one iteration of the while loop of checkTimeLine with e on top; brk is set
\* when the loop is left by `break`
checkTopPair(st, e, t) ==
    LET id == e[2]
        topTime == e[1]
        popped == [st EXCEPT !.timeline = Pop(@, e)]
    IN  IF id \notin DOMAIN st.enabled /\ id \notin DOMAIN st.idle
        THEN [st |-> popped, brk |-> FALSE]
        ELSE IF timeOfInterest(st, id) # topTime
        THEN [st |-> popped, brk |-> FALSE]
        ELSE IF topTime <= t
        THEN IF id \notin DOMAIN st.enabled
             THEN [st |-> [popped EXCEPT !.ret = TRUE,
                                         !.enabled = Put(@, id, st.idle[id]),
                                         !.idle = Erase(@, id)],
                   brk |-> FALSE]
             ELSE [st |-> [popped EXCEPT !.ret = TRUE, !.enabled = Erase(@, id)],
                   brk |-> FALSE]
        ELSE [st |-> st, brk |-> TRUE]

(* ------------------------ updateCheckinDocuments ------------------------ *)

\* the keys of a map in iteration order
KeysInOrder(m) == SelectSeq(IdSeq, LAMBDA x : x \in DOMAIN m)

\* variant: the Idle schemes are left out of the checkin
updateCheckinDocumentsEnabledOnly ==
    KeysInOrder(mEnabledCollectionSchemeMap)
        \o (IF mCurrentDecoderManifestID # "" THEN <<mCurrentDecoderManifestID>> ELSE <<>>)

updateCheckinDocuments ==
    KeysInOrder(mEnabledCollectionSchemeMap) \o KeysInOrder(mIdleCollectionSchemeMap)
        \o (IF mCurrentDecoderManifestID # "" THEN <<mCurrentDecoderManifestID>> ELSE <<>>)

(* ------------------------------ Init ------------------------------------ *)

\* the members of the manager after construction
ManagerMembers ==
    /\ now = 0
    /\ mDecoderManifestInput = NullDM
    /\ mDecoderManifestAvailable = FALSE
    /\ mCollectionSchemeListInput = NullCS
    /\ mCollectionSchemeAvailable = FALSE
    /\ mWaitNotify = FALSE
    /\ mDecoderManifest = NullDM
    /\ mCollectionSchemeList = NullCS
    /\ mProcessDecoderManifest = FALSE
    /\ mProcessCollectionScheme = FALSE
    /\ mCurrentDecoderManifestID = ""
    /\ mEnabledCollectionSchemeMap = EmptyMap
    /\ mIdleCollectionSchemeMap = EmptyMap
    /\ mTimeLine = [e \in Entries |-> 0]
    /\ decoderManifestChanged = FALSE
    /\ enabledCollectionSchemeMapChanged = FALSE
    /\ initialCheckinDocumentsUpdate = TRUE
    /\ checkTime = 0
    /\ ret = FALSE
    /\ errorCount = 0
    /\ checkinMsg = <<>>
    /\ activeCollectionSchemes = <<>>
    /\ passLog = <<>>
    /\ dmPosts = 0
    /\ csPosts = 0
    /\ dmOverwritten = {}
    /\ dmBuilt = {}
    /\ csOverwritten = {}
    /\ csBuilt = {}
    /\ expiryUpdate = [id \in SchemeIDs |-> NoUpdate]
    /\ transitions = {}
    /\ rejected = [missing |-> 0, failed |-> 0]

\* the manager when its thread starts
InitMembers == pc = "start" /\ ManagerMembers

\* no Policy Manager was started
ManagerUnused ==
    /\ pc = "off"
    /\ ManagerMembers
    /\ persistedDecoderManifest = NullDM
    /\ persistedCollectionSchemeList = NullCS

\* the parts that CollectionSchemeManager::doWork does not touch
OthersUnused ==
    /\ ExtractorUnused
    /\ PartialSignalsUnused
    /\ DataSenderManagerWorkerThreadUnused
    /\ WaitUnused
    /\ FlushUnused
    /\ CANDataSourceUnused
    /\ OBDOverCANModuleUnused
    /\ StopUnused

\* a first start: nothing is stored in the persistency
Init ==
    /\ InitMembers
    /\ persistedDecoderManifest = NullDM
    /\ persistedCollectionSchemeList = NullCS
    /\ OthersUnused

(* ------------------------- the environment ------------------------------ *)

\* mClock: a reading of the clock is any time not before the last reading
ClockReadings == now..MaxTime

\* the manifests a caller can hand over as its p-th post: nullptr, a new manifest
\* that fails to build, or a new manifest that builds and has an ID
DecoderManifestInputs(p) ==
    {NullDM, [ptr |-> p, id |-> "", ok |-> FALSE]}
        \cup {[ptr |-> p, id |-> i, ok |-> TRUE] : i \in ManifestIDs}

\* the lists a caller can hand over as its p-th post: nullptr, a new list that
\* fails to build, or a new list that builds to one of the given scheme vectors
CollectionSchemeListInputs(p, vectors) ==
    {NullCS, [ptr |-> p, ok |-> FALSE, schemes |-> <<>>]}
        \cup {[ptr |-> p, ok |-> TRUE, schemes |-> v] : v \in vectors}

\* variant: a post does not replace a manifest that is still pending
onDecoderManifestUpdateKeepFirst(decoderManifest) ==
    /\ dmPosts < MaxDmPosts
    /\ dmPosts' = dmPosts + 1
    /\ mDecoderManifestInput' = IF mDecoderManifestAvailable THEN mDecoderManifestInput
                                ELSE decoderManifest
    /\ mDecoderManifestAvailable' = TRUE
    /\ mWaitNotify' = TRUE
    /\ dmOverwritten' = IF mDecoderManifestAvailable /\ mDecoderManifestInput.ptr # 0
                        THEN dmOverwritten \cup {mDecoderManifestInput.ptr}
                        ELSE dmOverwritten
    /\ UNCHANGED <<now, pc, mCurrentDecoderManifestID, mCollectionSchemeListInput,
                   mCollectionSchemeAvailable, csPosts, csOverwritten, takenVars, mapVars,
                   localVars, outVars, dmBuilt, csBuilt, expiryUpdate, transitions, rejected>>
    /\ UNCHANGED nonManagerVars

onDecoderManifestUpdate(decoderManifest) ==
    /\ dmPosts < MaxDmPosts
    /\ dmPosts' = dmPosts + 1
    /\ mDecoderManifestInput' = decoderManifest
    /\ mDecoderManifestAvailable' = TRUE
    /\ mWaitNotify' = TRUE
    /\ dmOverwritten' = IF mDecoderManifestAvailable /\ mDecoderManifestInput.ptr # 0
                        THEN dmOverwritten \cup {mDecoderManifestInput.ptr}
                        ELSE dmOverwritten
    /\ UNCHANGED <<now, pc, mCurrentDecoderManifestID, mCollectionSchemeListInput,
                   mCollectionSchemeAvailable, csPosts, csOverwritten, takenVars, mapVars,
                   localVars, outVars, dmBuilt, csBuilt, expiryUpdate, transitions, rejected>>
    /\ UNCHANGED nonManagerVars

\* variant: the list is put in the slot without a notify
onCollectionSchemeUpdateNoNotify(collectionSchemeList) ==
    /\ csPosts < MaxCsPosts
    /\ csPosts' = csPosts + 1
    /\ mCollectionSchemeListInput' = collectionSchemeList
    /\ mCollectionSchemeAvailable' = TRUE
    /\ csOverwritten' = IF mCollectionSchemeAvailable /\ mCollectionSchemeListInput.ptr # 0
                        THEN csOverwritten \cup {mCollectionSchemeListInput.ptr}
                        ELSE csOverwritten
    /\ UNCHANGED <<now, pc, mWaitNotify, mCurrentDecoderManifestID, mDecoderManifestInput,
                   mDecoderManifestAvailable, dmPosts, dmOverwritten, takenVars, mapVars,
                   localVars, outVars, dmBuilt, csBuilt, expiryUpdate, transitions, rejected>>
    /\ UNCHANGED nonManagerVars

onCollectionSchemeUpdate(collectionSchemeList) ==
    /\ csPosts < MaxCsPosts
    /\ csPosts' = csPosts + 1
    /\ mCollectionSchemeListInput' = collectionSchemeList
    /\ mCollectionSchemeAvailable' = TRUE
    /\ mWaitNotify' = TRUE
    /\ csOverwritten' = IF mCollectionSchemeAvailable /\ mCollectionSchemeListInput.ptr # 0
                        THEN csOverwritten \cup {mCollectionSchemeListInput.ptr}
                        ELSE csOverwritten
    /\ UNCHANGED <<now, pc, mCurrentDecoderManifestID, mDecoderManifestInput,
                   mDecoderManifestAvailable, dmPosts, dmOverwritten, takenVars, mapVars,
                   localVars, outVars, dmBuilt, csBuilt, expiryUpdate, transitions, rejected>>
    /\ UNCHANGED nonManagerVars

\* The callbacks write only the mailbox and the Signal flag, which the manager
\* thread reads only in Wake and updateAvailable: a call made anywhere between
\* updateAvailable and the end of the pass has the effect of the call made right
\* after updateAvailable, and is modelled by it.
MailboxObserved == pc \in {"procDM", "waitNotify", "waitTimed", "avail"}

PostDecoderManifest ==
    /\ MailboxObserved
    /\ \E dm \in DecoderManifestInputs(dmPosts + 1) : onDecoderManifestUpdate(dm)

\* lists for the Timeline: P1 with any start and expiry, P2 from 1 to MaxTime
TimelineVectors ==
    {v \in SchemeVectors :
        \A i \in DOMAIN v : v[i].id # IdSeq[1] => v[i].start = 1 /\ v[i].expiry = MaxTime}

PostCollectionSchemeList ==
    /\ MailboxObserved
    /\ \E l \in CollectionSchemeListInputs(csPosts + 1, TimelineVectors) :
          onCollectionSchemeUpdate(l)

\* a small set of lists: the empty one, and the one with every ID, where P1 starts
\* at 0, P2 at 1, and both expire at MaxTime
BasicVectors ==
    {v \in SchemeVectors :
        /\ Len(v) \in {0, Len(IdSeq)}
        /\ \A i \in DOMAIN v : v[i].start = Rank(v[i].id) - 1 /\ v[i].expiry = MaxTime}

PostBasicSchemeList ==
    /\ MailboxObserved
    /\ \E l \in CollectionSchemeListInputs(csPosts + 1, BasicVectors) :
          onCollectionSchemeUpdate(l)

(* ------------------------- the manager thread --------------------------- *)

\* retrieve( type ): a stored document is loaded and flagged for processing
retrieve(stored, current) == IF stored.ptr # 0 THEN stored ELSE current

\* doWork up to its loop: the two retrieve calls
DoWorkStart ==
    /\ pc = "start"
    /\ mCollectionSchemeList' = retrieve(persistedCollectionSchemeList, mCollectionSchemeList)
    /\ mProcessCollectionScheme' =
           (mProcessCollectionScheme \/ persistedCollectionSchemeList.ptr # 0)
    /\ mDecoderManifest' = retrieve(persistedDecoderManifest, mDecoderManifest)
    /\ mProcessDecoderManifest' = (mProcessDecoderManifest \/ persistedDecoderManifest.ptr # 0)
    /\ pc' = "procDM"
    /\ UNCHANGED <<now, mWaitNotify, mCurrentDecoderManifestID, mailboxVars, mapVars,
                   localVars, outVars, dmBuilt, csBuilt, expiryUpdate, transitions, rejected>>
    /\ UNCHANGED nonManagerVars

\* variant: a manifest that builds replaces the current one whatever its ID
processDecoderManifestAnyID ==
    IF mDecoderManifest.ptr = 0 \/ ~mDecoderManifest.ok
    THEN /\ errorCount' = errorCount + 1
         /\ decoderManifestChanged' = FALSE
         /\ passLog' = <<>>
         /\ UNCHANGED <<mCurrentDecoderManifestID, persistedDecoderManifest>>
    ELSE /\ mCurrentDecoderManifestID' = mDecoderManifest.id
         /\ persistedDecoderManifest' = mDecoderManifest
         /\ passLog' = <<"customSignalDecoderFormatMap">>
         /\ decoderManifestChanged' = TRUE
         /\ UNCHANGED errorCount

\* processDecoderManifest: returns true (decoderManifestChanged) when the current
\* manifest ID was replaced
processDecoderManifest ==
    IF mDecoderManifest.ptr = 0 \/ ~mDecoderManifest.ok
    THEN /\ errorCount' = errorCount + 1
         /\ decoderManifestChanged' = FALSE
         /\ passLog' = <<>>
         /\ UNCHANGED <<mCurrentDecoderManifestID, persistedDecoderManifest>>
    ELSE IF mDecoderManifest.id = mCurrentDecoderManifestID
    THEN /\ decoderManifestChanged' = FALSE
         /\ passLog' = <<>>
         /\ UNCHANGED <<errorCount, mCurrentDecoderManifestID, persistedDecoderManifest>>
    ELSE /\ mCurrentDecoderManifestID' = mDecoderManifest.id
         /\ persistedDecoderManifest' = mDecoderManifest
         /\ passLog' = <<"customSignalDecoderFormatMap">>
         /\ decoderManifestChanged' = TRUE
         /\ UNCHANGED errorCount

\* doWork, top of the loop: the decoder manifest, if one is flagged
DoWorkDecoderManifest ==
    /\ pc = "procDM"
    /\ pc' = "procCS"
    /\ mProcessDecoderManifest' = FALSE
    /\ IF mProcessDecoderManifest
       THEN /\ processDecoderManifest
            /\ dmBuilt' = IF mDecoderManifest.ptr # 0
                          THEN dmBuilt \cup {mDecoderManifest.ptr} ELSE dmBuilt
       ELSE /\ decoderManifestChanged' = FALSE
            /\ passLog' = <<>>
            /\ UNCHANGED <<errorCount, mCurrentDecoderManifestID, persistedDecoderManifest,
                           dmBuilt>>
    /\ enabledCollectionSchemeMapChanged' = FALSE
    /\ UNCHANGED <<now, mWaitNotify, mailboxVars, mDecoderManifest, mCollectionSchemeList,
                   mProcessCollectionScheme, mapVars, initialCheckinDocumentsUpdate,
                   checkTime, ret, persistedCollectionSchemeList, checkinMsg,
                   activeCollectionSchemes, csBuilt, expiryUpdate, transitions, rejected>>
    /\ UNCHANGED nonManagerVars

\* history: what a step that takes the Enabled map from enabled to enabled2 did to
\* each ID: "start" (Idle to Enabled), "add" (new in Enabled), "stop" (out of
\* Enabled while in ids) or "remove" (out of Enabled, not in ids); checkTimeLine
\* adds "discard" for an entry it pops without changing a map
mapTransitions(enabled, idle, enabled2, ids, cause) ==
    {<<id, "start", cause>> : id \in (DOMAIN idle) \cap (DOMAIN enabled2)}
        \cup {<<id, "add", cause>> :
                  id \in (DOMAIN enabled2) \ ((DOMAIN enabled) \cup (DOMAIN idle))}
        \cup {<<id, "stop", cause>> : id \in ((DOMAIN enabled) \ (DOMAIN enabled2)) \cap ids}
        \cup {<<id, "remove", cause>> : id \in ((DOMAIN enabled) \ (DOMAIN enabled2)) \ ids}

\* history: the expiry change an Enabled scheme gets from the list being processed
trackExpiryUpdate(track, enabled, list, t) ==
    [id \in SchemeIDs |->
        IF \E i \in DOMAIN list : list[i].id = id
        THEN LET cs == list[CHOOSE i \in DOMAIN list : list[i].id = id] IN
             IF id \in DOMAIN enabled /\ cs.expiry # enabled[id].expiry /\ cs.expiry > t
             THEN [old |-> enabled[id].expiry, new |-> cs.expiry]
             ELSE IF track[id] # NoUpdate /\ cs.expiry = track[id].new
             THEN track[id]
             ELSE NoUpdate
        ELSE NoUpdate]

\* processCollectionScheme: returns true (enabledCollectionSchemeMapChanged) when
\* the Enabled map changed
processCollectionScheme(currTime) ==
    IF mCollectionSchemeList.ptr = 0 \/ ~mCollectionSchemeList.ok
    THEN /\ errorCount' = errorCount + 1
         /\ enabledCollectionSchemeMapChanged' = FALSE
         /\ UNCHANGED <<mapVars, persistedCollectionSchemeList, expiryUpdate, transitions>>
    ELSE LET st0 == MapState(mEnabledCollectionSchemeMap, mIdleCollectionSchemeMap,
                             mTimeLine, FALSE)
             st == IF isCollectionSchemeLoaded
                   THEN updateMapsandTimeLine(st0, mCollectionSchemeList.schemes, currTime)
                   ELSE rebuildMapsandTimeLine(st0, mCollectionSchemeList.schemes, currTime)
         IN  /\ persistedCollectionSchemeList' = mCollectionSchemeList
             /\ mEnabledCollectionSchemeMap' = st.enabled
             /\ mIdleCollectionSchemeMap' = st.idle
             /\ mTimeLine' = st.timeline
             /\ enabledCollectionSchemeMapChanged' = st.ret
             /\ expiryUpdate' = trackExpiryUpdate(expiryUpdate, mEnabledCollectionSchemeMap,
                                                  mCollectionSchemeList.schemes, currTime)
             /\ transitions' = transitions \cup
                    mapTransitions(mEnabledCollectionSchemeMap, mIdleCollectionSchemeMap,
                                   st.enabled,
                                   {mCollectionSchemeList.schemes[i].id :
                                       i \in DOMAIN mCollectionSchemeList.schemes},
                                   "list")
             /\ UNCHANGED errorCount

\* doWork: the scheme list, if one is flagged
DoWorkCollectionScheme ==
    /\ pc = "procCS"
    /\ pc' = "check"
    /\ mProcessCollectionScheme' = FALSE
    /\ IF mProcessCollectionScheme
       THEN /\ \E t \in ClockReadings : now' = t /\ processCollectionScheme(t)
            /\ csBuilt' = IF mCollectionSchemeList.ptr # 0
                          THEN csBuilt \cup {mCollectionSchemeList.ptr} ELSE csBuilt
       ELSE UNCHANGED <<now, errorCount, enabledCollectionSchemeMapChanged, mapVars,
                        persistedCollectionSchemeList, expiryUpdate, transitions,
                        csBuilt>>
    /\ UNCHANGED <<mWaitNotify, mCurrentDecoderManifestID, mailboxVars, mDecoderManifest,
                   mCollectionSchemeList, mProcessDecoderManifest, decoderManifestChanged,
                   initialCheckinDocumentsUpdate, checkTime, ret, persistedDecoderManifest,
                   checkinMsg, activeCollectionSchemes, passLog, dmBuilt, rejected>>
    /\ UNCHANGED nonManagerVars

\* checkTimeLine( checkTime ): the clock is read, and the function returns at once
\* when the Timeline is empty or its top lies in the future
CheckTimeLineBegin ==
    /\ pc = "check"
    /\ \E t \in ClockReadings :
          /\ now' = t
          /\ checkTime' = t
          /\ pc' = IF TimeLineEmpty(mTimeLine) \/ t < TopTime(mTimeLine)
                   THEN "checkin" ELSE "checkLoop"
    /\ ret' = FALSE
    /\ UNCHANGED <<mWaitNotify, mCurrentDecoderManifestID, mailboxVars, takenVars,
                   mapVars, decoderManifestChanged, enabledCollectionSchemeMapChanged,
                   initialCheckinDocumentsUpdate, outVars, dmBuilt, csBuilt, expiryUpdate,
                   transitions, rejected>>
    /\ UNCHANGED nonManagerVars

\* checkTimeLine: one iteration of its while loop, on one of the entries that can
\* be on top; the function returns when the loop breaks or the Timeline is empty
CheckTimeLineStep ==
    /\ pc = "checkLoop"
    /\ \E e \in TopEntries(mTimeLine) :
          LET r == checkTopPair(MapState(mEnabledCollectionSchemeMap,
                                         mIdleCollectionSchemeMap, mTimeLine, ret),
                                e, checkTime)
              done == r.brk \/ TimeLineEmpty(r.st.timeline)
          IN  /\ mEnabledCollectionSchemeMap' = r.st.enabled
              /\ mIdleCollectionSchemeMap' = r.st.idle
              /\ mTimeLine' = r.st.timeline
              /\ ret' = r.st.ret
              /\ pc' = IF done THEN "checkin" ELSE "checkLoop"
              /\ enabledCollectionSchemeMapChanged' =
                     IF done THEN (enabledCollectionSchemeMapChanged \/ r.st.ret)
                     ELSE enabledCollectionSchemeMapChanged
              /\ transitions' = transitions
                     \cup mapTransitions(mEnabledCollectionSchemeMap,
                                         mIdleCollectionSchemeMap, r.st.enabled, SchemeIDs,
                                         "timeline")
                     \cup (IF /\ r.st.timeline # mTimeLine
                              /\ r.st.enabled = mEnabledCollectionSchemeMap
                              /\ r.st.idle = mIdleCollectionSchemeMap
                           THEN {<<e[2], "discard", "timeline">>} ELSE {})
    /\ UNCHANGED <<now, mWaitNotify, mCurrentDecoderManifestID, mailboxVars, takenVars,
                   decoderManifestChanged, initialCheckinDocumentsUpdate, checkTime,
                   outVars, dmBuilt, csBuilt, expiryUpdate, rejected>>
    /\ UNCHANGED nonManagerVars

\* variant: the first pass counts as a change of the documents
documentsChangedOrInitial ==
    decoderManifestChanged \/ enabledCollectionSchemeMapChanged \/ initialCheckinDocumentsUpdate

documentsChanged == decoderManifestChanged \/ enabledCollectionSchemeMapChanged

(* ------------------ updateActiveCollectionSchemeListeners --------------- *)

\* every scheme of the Enabled map and of the Idle map refers to the current
\* decoder manifest
isCollectionSchemesInSyncWithDm ==
    /\ \A id \in DOMAIN mEnabledCollectionSchemeMap :
          mEnabledCollectionSchemeMap[id].dm = mCurrentDecoderManifestID
    /\ \A id \in DOMAIN mIdleCollectionSchemeMap :
          mIdleCollectionSchemeMap[id].dm = mCurrentDecoderManifestID

\* the Enabled schemes in the order of the map
EnabledInOrder ==
    LET keys == KeysInOrder(mEnabledCollectionSchemeMap)
    IN  [i \in DOMAIN keys |-> mEnabledCollectionSchemeMap[keys[i]]]

\* variant: the Enabled schemes are given to the listeners whatever manifest they
\* refer to
updateActiveCollectionSchemeListenersUnchecked == EnabledInOrder

\* the list of active schemes given to the listeners: the Enabled schemes when all
\* loaded schemes are in sync with the manifest, else the empty list
updateActiveCollectionSchemeListeners ==
    IF isCollectionSchemesInSyncWithDm THEN EnabledInOrder ELSE <<>>

\* variant: the matrices are given to their listeners before the decoder
\* dictionaries are extracted
extractAndPublishMatricesFirst ==
    <<"activeCollectionSchemes", "matrixExtractor", "inspectionMatrix", "fetchMatrix",
      "decoderDictionaryExtractor", "decoderDictionary">>

\* doWork, if ( documentsChanged ): the extractions and the listener calls in the
\* order they are made (decoderManifestChanged || enabledCollectionSchemeMapChanged
\* holds whenever documentsChanged does)
extractAndPublish ==
    <<"activeCollectionSchemes", "matrixExtractor", "decoderDictionaryExtractor",
      "decoderDictionary", "inspectionMatrix", "fetchMatrix">>

\* doWork: the checkin documents are handed over, then the artifacts are extracted
\* and the listeners notified
DoWorkPublish ==
    /\ pc = "checkin"
    /\ pc' = "endpass"
    /\ IF documentsChanged \/ initialCheckinDocumentsUpdate
       THEN /\ initialCheckinDocumentsUpdate' = FALSE
            /\ checkinMsg' = updateCheckinDocuments
       ELSE UNCHANGED <<initialCheckinDocumentsUpdate, checkinMsg>>
    /\ activeCollectionSchemes' = IF documentsChanged
                                  THEN updateActiveCollectionSchemeListeners
                                  ELSE activeCollectionSchemes
    /\ passLog' = passLog
                    \o (IF documentsChanged \/ initialCheckinDocumentsUpdate
                        THEN <<"checkinDocuments">> ELSE <<>>)
                    \o (IF documentsChanged THEN extractAndPublish ELSE <<>>)
    /\ UNCHANGED <<now, mWaitNotify, mCurrentDecoderManifestID, mailboxVars, takenVars,
                   mapVars, decoderManifestChanged, enabledCollectionSchemeMapChanged,
                   checkTime, ret, persistedDecoderManifest, persistedCollectionSchemeList,
                   errorCount, dmBuilt, csBuilt, expiryUpdate, transitions, rejected>>
    /\ UNCHANGED nonManagerVars

\* doWork: the wait after a pass is chosen from the Timeline and the clock
DoWorkEndPass ==
    /\ pc = "endpass"
    /\ \E currentSystemTime \in ClockReadings :
          /\ now' = currentSystemTime
          /\ pc' = IF TimeLineEmpty(mTimeLine) THEN "waitNotify"
                   ELSE IF currentSystemTime >= TopTime(mTimeLine) THEN "avail"
                   ELSE "waitTimed"
    \* the locals of this iteration go out of scope
    /\ decoderManifestChanged' = FALSE
    /\ enabledCollectionSchemeMapChanged' = FALSE
    /\ checkTime' = 0
    /\ ret' = FALSE
    /\ passLog' = <<>>
    /\ UNCHANGED <<mWaitNotify, mCurrentDecoderManifestID, mailboxVars, takenVars,
                   mapVars, initialCheckinDocumentsUpdate, persistedDecoderManifest,
                   persistedCollectionSchemeList, errorCount, checkinMsg,
                   activeCollectionSchemes, dmBuilt, csBuilt, expiryUpdate, transitions,
                   rejected>>
    /\ UNCHANGED nonManagerVars

\* mWait.wait returns: on a notification, or (timed wait) when its time is over
Wake ==
    /\ pc \in {"waitNotify", "waitTimed"}
    /\ pc = "waitNotify" => mWaitNotify
    /\ mWaitNotify' = FALSE
    /\ pc' = "avail"
    /\ UNCHANGED <<now, mCurrentDecoderManifestID, mailboxVars, takenVars, mapVars,
                   localVars, outVars, dmBuilt, csBuilt, expiryUpdate, transitions, rejected>>
    /\ UNCHANGED nonManagerVars

\* history: 1 when the pending input is a null pointer, else 0
missingInput(available, input) == IF available /\ input.ptr = 0 THEN 1 ELSE 0

\* history: 1 when the pending input is an object that will fail to build, else 0
failingInput(available, input) == IF available /\ input.ptr # 0 /\ ~input.ok THEN 1 ELSE 0

\* variant: a pending input is taken over even when it is a null pointer
updateAvailableTakeNull ==
    /\ pc = "avail"
    /\ pc' = IF mShouldStop THEN "done" ELSE "procDM"
    /\ IF mCollectionSchemeAvailable
       THEN /\ mCollectionSchemeList' = mCollectionSchemeListInput
            /\ mProcessCollectionScheme' = TRUE
       ELSE UNCHANGED <<mCollectionSchemeList, mProcessCollectionScheme>>
    /\ mCollectionSchemeAvailable' = FALSE
    /\ IF mDecoderManifestAvailable
       THEN /\ mDecoderManifest' = mDecoderManifestInput
            /\ mProcessDecoderManifest' = TRUE
       ELSE UNCHANGED <<mDecoderManifest, mProcessDecoderManifest>>
    /\ mDecoderManifestAvailable' = FALSE
    /\ rejected' = [missing |-> rejected.missing
                                  + missingInput(mCollectionSchemeAvailable,
                                                 mCollectionSchemeListInput)
                                  + missingInput(mDecoderManifestAvailable,
                                                 mDecoderManifestInput),
                    failed |-> rejected.failed
                                  + failingInput(mCollectionSchemeAvailable,
                                                 mCollectionSchemeListInput)
                                  + failingInput(mDecoderManifestAvailable,
                                                 mDecoderManifestInput)]
    /\ UNCHANGED <<now, mWaitNotify, mCurrentDecoderManifestID, mDecoderManifestInput,
                   mCollectionSchemeListInput, dmPosts, csPosts, dmOverwritten, csOverwritten,
                   mapVars, localVars, outVars, dmBuilt, csBuilt, expiryUpdate, transitions>>
    /\ UNCHANGED nonManagerVars

updateAvailable ==
    /\ pc = "avail"
    /\ pc' = IF mShouldStop THEN "done" ELSE "procDM"
    /\ IF mCollectionSchemeAvailable /\ mCollectionSchemeListInput.ptr # 0
       THEN /\ mCollectionSchemeList' = mCollectionSchemeListInput
            /\ mProcessCollectionScheme' = TRUE
       ELSE UNCHANGED <<mCollectionSchemeList, mProcessCollectionScheme>>
    /\ mCollectionSchemeAvailable' = FALSE
    /\ IF mDecoderManifestAvailable /\ mDecoderManifestInput.ptr # 0
       THEN /\ mDecoderManifest' = mDecoderManifestInput
            /\ mProcessDecoderManifest' = TRUE
       ELSE UNCHANGED <<mDecoderManifest, mProcessDecoderManifest>>
    /\ mDecoderManifestAvailable' = FALSE
    /\ rejected' = [missing |-> rejected.missing
                                  + missingInput(mCollectionSchemeAvailable,
                                                 mCollectionSchemeListInput)
                                  + missingInput(mDecoderManifestAvailable,
                                                 mDecoderManifestInput),
                    failed |-> rejected.failed
                                  + failingInput(mCollectionSchemeAvailable,
                                                 mCollectionSchemeListInput)
                                  + failingInput(mDecoderManifestAvailable,
                                                 mDecoderManifestInput)]
    /\ UNCHANGED <<now, mWaitNotify, mCurrentDecoderManifestID, mDecoderManifestInput,
                   mCollectionSchemeListInput, dmPosts, csPosts, dmOverwritten, csOverwritten,
                   mapVars, localVars, outVars, dmBuilt, csBuilt, expiryUpdate, transitions>>
    /\ UNCHANGED nonManagerVars

Manager ==
    \/ DoWorkStart
    \/ DoWorkDecoderManifest
    \/ DoWorkCollectionScheme
    \/ CheckTimeLineBegin
    \/ CheckTimeLineStep
    \/ DoWorkPublish
    \/ DoWorkEndPass
    \/ Wake
    \/ updateAvailable

\* both mailboxes, with the small set of lists
Next ==
    \/ PostDecoderManifest
    \/ PostBasicSchemeList
    \/ Manager

Spec == Init /\ [][Next]_vars

\* the scheme list mailbox alone, with the lists for the Timeline
NextSchemes ==
    \/ PostCollectionSchemeList
    \/ Manager

SpecSchemes == Init /\ [][NextSchemes]_vars

\* lists that hold the first scheme ID twice, with any start and expiry times
DuplicateVectors ==
    {v \in [1..2 -> Schemes] : v[1].id = IdSeq[1] /\ v[2].id = IdSeq[1]}

PostDuplicateSchemeList ==
    /\ MailboxObserved
    /\ \E l \in CollectionSchemeListInputs(csPosts + 1, DuplicateVectors) :
          onCollectionSchemeUpdate(l)

\* the scheme list mailbox alone, with lists that repeat a scheme ID
NextDuplicates ==
    \/ PostDuplicateSchemeList
    \/ Manager

SpecDuplicates == Init /\ [][NextDuplicates]_vars

\* the manifests a previous run can have left in the persistency: none, or one
\* that was built and stored
StoredManifests ==
    {NullDM} \cup {[ptr |-> MaxDmPosts + 1, id |-> i, ok |-> TRUE] : i \in ManifestIDs}

\* the scheme lists a previous run can have left in the persistency
StoredSchemeLists ==
    {NullCS} \cup {[ptr |-> MaxCsPosts + 1, ok |-> TRUE, schemes |-> v] : v \in BasicVectors}

\* a restart: the persistency holds what a previous run stored
InitRestart ==
    /\ InitMembers
    /\ persistedDecoderManifest \in StoredManifests
    /\ persistedCollectionSchemeList \in StoredSchemeLists
    /\ OthersUnused

\* a restart followed by manifest updates
NextRestart ==
    \/ PostDecoderManifest
    \/ Manager

SpecRestart == InitRestart /\ [][NextRestart]_vars

(* ------------------- the wait of doWork and the clock ------------------- *)

\* variant: time passes during a timed wait whatever the top of the Timeline is
WaitTimePassesAnyTop ==
    /\ pc \in {"waitNotify", "waitTimed"}
    /\ now < MaxTime
    /\ now' = now + 1
    /\ UNCHANGED <<pc, mWaitNotify, mCurrentDecoderManifestID, mailboxVars, takenVars,
                   mapVars, localVars, outVars, dmBuilt, csBuilt, expiryUpdate, transitions,
                   rejected>>
    /\ UNCHANGED nonManagerVars

\* mWait.wait( waitTimeMs ): time passes while the thread waits; a timed wait is
\* over when the clock reaches the top of the Timeline (waitTimeMs is at most
\* top - currentSystemTime), a wait for a notification has no such end
WaitTimePasses ==
    /\ pc \in {"waitNotify", "waitTimed"}
    /\ pc = "waitTimed" => now < TopTime(mTimeLine)
    /\ now < MaxTime
    /\ now' = now + 1
    /\ UNCHANGED <<pc, mWaitNotify, mCurrentDecoderManifestID, mailboxVars, takenVars,
                   mapVars, localVars, outVars, dmBuilt, csBuilt, expiryUpdate, transitions,
                   rejected>>
    /\ UNCHANGED nonManagerVars

\* the steps of the thread when a pass takes no time: every reading of the clock
\* in a pass gives the time the thread woke up at
ManagerOnTime == Manager /\ now' = now

\* the scheme list mailbox, with the clock advancing in the waits only
NextTimeLine ==
    \/ PostCollectionSchemeList
    \/ WaitTimePasses
    \/ ManagerOnTime

\* both mailboxes; the slots and the notify do not depend on the clock, and the
\* passes are taken within the time it takes a wait to begin
NextMailbox ==
    \/ PostDecoderManifest
    \/ PostBasicSchemeList
    \/ ManagerOnTime

\* the thread keeps running
SpecMailbox == Init /\ [][NextMailbox]_vars /\ WF_vars(ManagerOnTime)

\* the thread keeps running, and the clock advances: the thread cannot go through
\* its timed waits for ever without time passing in one of them
SpecTimeLine ==
    Init /\ [][NextTimeLine]_vars /\ WF_vars(ManagerOnTime) /\ SF_vars(WaitTimePasses)

(* -------------------- decoderDictionaryExtractor ------------------------ *)

SignalIDs == 1..MaxSignalID

CANRawFrameIDs == {"0x100", "0x200"}

PIDs == {"0x14"}

\* what a decoder manifest holds for a signal ID: no decoder at all, a CAN frame
\* (decoded says whether the format of the frame has a rule for the signal), or
\* an OBD PID
SignalDecoders ==
    {[protocol |-> "INVALID", frame |-> "", decoded |-> FALSE]}
        \cup {[protocol |-> "RAW_SOCKET", frame |-> "0x100", decoded |-> FALSE]}
        \cup [protocol : {"RAW_SOCKET"}, frame : CANRawFrameIDs, decoded : {TRUE}]
        \cup [protocol : {"OBD"}, frame : PIDs, decoded : {TRUE}]

\* a scheme as the extraction sees it: the map it is in ("None": in no map) and
\* the signal IDs it collects
SchemeSignals == [state : {"Enabled", "Idle", "None"}, signals : SUBSET SignalIDs]

\* a dictionary that was not created (nullptr)
NullDictionary == [methods |-> <<>>, signalIDsToCollect |-> {}, null |-> TRUE]

\* the dictionary after signal s, which decodes from frame f, was added to it
addDecoderMethod(dictionary, f, s, decoded) ==
    [methods |-> IF decoded
                 THEN [x \in (DOMAIN dictionary.methods) \cup {f} |->
                          IF x = f
                          THEN (IF f \in DOMAIN dictionary.methods
                                THEN dictionary.methods[f] ELSE {}) \cup {s}
                          ELSE dictionary.methods[x]]
                 ELSE dictionary.methods,
     signalIDsToCollect |-> dictionary.signalIDsToCollect \cup {s},
     null |-> FALSE]

\* one signal of one scheme: it goes to the dictionary of its protocol
extractSignal(map, formats, s) ==
    LET decoder == formats[s] IN
    IF decoder.protocol = "INVALID" THEN map
    ELSE [map EXCEPT ![decoder.protocol] =
                         addDecoderMethod(@, decoder.frame, s, decoder.decoded)]

RECURSIVE extractSignals(_, _, _, _)
extractSignals(map, formats, signals, s) ==
    IF s > MaxSignalID THEN map
    ELSE extractSignals(IF s \in signals THEN extractSignal(map, formats, s) ELSE map,
                        formats, signals, s + 1)

\* the schemes the extraction runs over, in the order of the map
RECURSIVE extractSchemes(_, _, _, _, _)
extractSchemes(map, formats, schemes, states, i) ==
    IF i > Len(IdSeq) THEN map
    ELSE extractSchemes(IF schemes[IdSeq[i]].state \in states
                        THEN extractSignals(map, formats, schemes[IdSeq[i]].signals, 1)
                        ELSE map,
                        formats, schemes, states, i + 1)

\* variant: the extraction runs over the Idle schemes too
decoderDictionaryExtractorAllLoaded(formats, schemes) ==
    extractSchemes([protocol \in {"RAW_SOCKET", "OBD"} |-> NullDictionary], formats, schemes,
                   {"Enabled", "Idle"}, 1)

\* decoderDictionaryExtractor: one dictionary per protocol, built from the signals
\* of the Enabled schemes
decoderDictionaryExtractor(formats, schemes) ==
    extractSchemes([protocol \in {"RAW_SOCKET", "OBD"} |-> NullDictionary], formats, schemes,
                   {"Enabled"}, 1)

\* the extraction is applied to a manifest and a set of schemes
InitExtract ==
    /\ ManagerUnused
    /\ decoderManifestFormats \in [SignalIDs -> SignalDecoders]
    /\ collectSignals \in [SchemeIDs -> SchemeSignals]
    /\ decoderDictionaryMap = <<>>
    /\ PartialSignalsUnused
    /\ DataSenderManagerWorkerThreadUnused
    /\ WaitUnused
    /\ FlushUnused
    /\ CANDataSourceUnused
    /\ OBDOverCANModuleUnused
    /\ StopUnused

ExtractDecoderDictionary ==
    /\ decoderManifestFormats # <<>>
    /\ decoderDictionaryMap = <<>>
    /\ decoderDictionaryMap' = decoderDictionaryExtractor(decoderManifestFormats, collectSignals)
    /\ UNCHANGED <<managerVars, decoderManifestFormats, collectSignals, partialVars, canVars,
                   obdVars, senderVars, waitVars, flushVars, stopVars>>

NextExtract == ExtractDecoderDictionary

SpecExtract == InitExtract /\ [][NextExtract]_vars

(* ---------------------- partial signal identity ------------------------- *)

\* a 32 bit SignalID, written as its top bit and its low 31 bits
SignalID(top, low) == [top |-> top, low |-> low]

\* the marker bit of an internal (synthesized) signal ID: 0x80000000
INTERNAL_SIGNAL_ID_BITMASK == SignalID(1, 0)

\* bitwise or and bitwise and of a SignalID with the marker bit
BitOr(a, b) == SignalID(IF a.top = 1 \/ b.top = 1 THEN 1 ELSE 0,
                        IF a.low = 0 THEN b.low ELSE a.low)

BitAnd(a, b) == SignalID(IF a.top = 1 /\ b.top = 1 THEN 1 ELSE 0,
                         IF a.low = b.low THEN a.low ELSE 0)

\* a signal reference of a scheme: the signal ID the cloud assigned and the path
\* into the structured signal (empty: the whole signal)
SignalPaths == {<<>>, <<5>>, <<5, 0>>}

SignalReferences == [signal_id : 1..2, signal_path : SignalPaths]

RECURSIVE SeqsUpTo(_, _)
SeqsUpTo(S, n) ==
    IF n = 0 THEN {<<>>}
    ELSE SeqsUpTo(S, n - 1) \cup {Append(s, x) : s \in {t \in SeqsUpTo(S, n - 1) : Len(t) = n - 1}, x \in S}

HasMarker(id) == BitAnd(id, INTERNAL_SIGNAL_ID_BITMASK) = INTERNAL_SIGNAL_ID_BITMASK

\* variant: every reference gets an internal ID of its own
getOrInsertPartialSignalIDFresh(lookup, ref) ==
    lookup \cup {[ref |-> ref, n |-> Cardinality(lookup),
                  id |-> BitOr(SignalID(0, Cardinality(lookup)), INTERNAL_SIGNAL_ID_BITMASK)]}

\* the lookup after ref was resolved: a (signal ID, path) pair that is already in
\* it keeps its internal ID, a new pair gets the next one
getOrInsertPartialSignalID(lookup, ref) ==
    IF \E e \in lookup : e.ref = ref THEN lookup
    ELSE lookup \cup {[ref |-> ref, n |-> Cardinality(lookup),
                       id |-> BitOr(SignalID(0, Cardinality(lookup)), INTERNAL_SIGNAL_ID_BITMASK)]}

\* the internal ID the lookup gave to ref at its latest resolution
PartialSignalID(lookup, ref) ==
    LET es == {e \in lookup : e.ref = ref}
        last == CHOOSE e \in es : \A o \in es : o.n <= e.n
    IN last.id

\* the state of a build: the lookup and the signal IDs of each scheme so far
RECURSIVE buildSignals(_, _, _, _)
buildSignals(build, id, refs, k) ==
    IF k > Len(refs) THEN build
    ELSE IF refs[k].signal_path = <<>>
         THEN buildSignals([build EXCEPT !.ids[id] = Append(@, SignalID(0, refs[k].signal_id))], id, refs, k + 1)
         ELSE LET lookup == getOrInsertPartialSignalID(build.lookup, refs[k]) IN
              buildSignals([lookup |-> lookup,
                            ids |-> [build.ids EXCEPT ![id] = Append(@, PartialSignalID(lookup, refs[k]))]],
                           id, refs, k + 1)

RECURSIVE buildSchemes(_, _, _)
buildSchemes(build, info, i) ==
    IF i > Len(IdSeq) THEN build
    ELSE buildSchemes(buildSignals(build, IdSeq[i], info[IdSeq[i]], 1), info, i + 1)

\* CollectionSchemeIngestionList::build over the schemes of the list
buildCollectionSchemeList(info) ==
    buildSchemes([lookup |-> {}, ids |-> [id \in SchemeIDs |-> <<>>]], info, 1)

InitBuild ==
    /\ ManagerUnused
    /\ ExtractorUnused
    /\ signalInformation \in [SchemeIDs -> SeqsUpTo(SignalReferences, MaxSignalInformation)]
    /\ partialSignalIDLookup = {}
    /\ collectSignalIDs = <<>>
    /\ CANDataSourceUnused
    /\ OBDOverCANModuleUnused
    /\ DataSenderManagerWorkerThreadUnused
    /\ WaitUnused
    /\ FlushUnused
    /\ StopUnused

BuildCollectionSchemeList ==
    /\ signalInformation # <<>>
    /\ collectSignalIDs = <<>>
    /\ LET build == buildCollectionSchemeList(signalInformation) IN
          /\ partialSignalIDLookup' = build.lookup
          /\ collectSignalIDs' = build.ids
    /\ UNCHANGED <<managerVars, extractVars, signalInformation, canVars, obdVars, senderVars, waitVars, flushVars, stopVars>>

NextBuild == BuildCollectionSchemeList

SpecBuild == InitBuild /\ [][NextBuild]_vars

(* --------------------------- CANDataSource ------------------------------ *)

\* a std::shared_ptr<const CANDecoderDictionary>
CANDecoderDictionaries == {"nullptr", "D1", "D2"}

Timestamps == 1..MaxTimestamp

\* what recvmmsg returns: the timestamps of the frames it read, or -1 and errno
Batches == SeqsUpTo(Timestamps, PARALLEL_RECEIVED_FRAMES_FROM_KERNEL)

Errnos == {"EAGAIN", "ENETDOWN", "ENETUNREACH", "ENODEV"}

canOthers == <<managerVars, extractVars, partialVars, obdVars, senderVars, waitVars, flushVars, stopVars>>

\* onChangeOfActiveDictionary for another protocol than RAW_SOCKET: ignored
onChangeOfActiveDictionaryOther ==
    /\ canPc # "off"
    /\ UNCHANGED <<canVars, canOthers>>

\* onChangeOfActiveDictionary( dictionary, RAW_SOCKET ): notifies the reader only
\* for a dictionary that is not null
onChangeOfActiveDictionary ==
    /\ canPc # "off"
    /\ \E dictionary \in CANDecoderDictionaries :
          /\ mDecoderDictionary' = dictionary
          /\ canWaitNotify' = IF dictionary # "nullptr" THEN TRUE ELSE canWaitNotify
    /\ UNCHANGED <<canPc, canShouldStop, canLocalVars, canOutVars, canHistoryVars, canOthers>>

\* top of the loop: the dictionary of this iteration is taken under the mutex
CanTakeDictionary ==
    /\ canPc = "loop"
    /\ decoderDictionary' = mDecoderDictionary
    /\ canPc' = IF mDecoderDictionary = "nullptr" THEN "sleep" ELSE "recv"
    /\ UNCHANGED <<canSharedVars, wokeUpFromSleep, lastFrameTime, msg, nmsgs, errno, msgIndex,
                   canOutVars, canHistoryVars, canOthers>>

\* variant: the wake-up from the sleep on a null dictionary leaves wokeUpFromSleep
\* as it was
CanWakeUpFlagKept ==
    /\ canPc = "sleep"
    /\ canWaitNotify
    /\ canWaitNotify' = FALSE
    /\ batchesSinceWake' = 0
    /\ drained' = FALSE
    /\ canPc' = "recv"
    /\ UNCHANGED <<mDecoderDictionary, canShouldStop, decoderDictionary, wokeUpFromSleep,
                   lastFrameTime, msg, nmsgs, errno, msgIndex, canOutVars, recvCalls,
                   readWhileNull, networkWasDown, canOthers>>

\* mWait.wait( Signal::WaitWithPredicate ) returns on a notify
CanWakeUp ==
    /\ canPc = "sleep"
    /\ canWaitNotify
    /\ canWaitNotify' = FALSE
    /\ wokeUpFromSleep' = TRUE
    /\ batchesSinceWake' = 0
    /\ drained' = FALSE
    /\ canPc' = "recv"
    /\ UNCHANGED <<mDecoderDictionary, canShouldStop, decoderDictionary, lastFrameTime, msg, nmsgs,
                   errno, msgIndex, canOutVars, recvCalls, readWhileNull, networkWasDown, canOthers>>

\* FWE_GRACEFUL_FATAL_ASSERT( condition, message, ): where the thread is after
\* it: a failed assertion raises the fatal error and returns from doWork
FWE_GRACEFUL_FATAL_ASSERT(condition, next) == IF condition THEN next ELSE "done"

\* variant: ENETDOWN is taken for the removal of the interface too
isInterfaceRemovedOrDown(n, e) == n = -1 /\ e \in {"ENODEV", "ENETDOWN"}

\* the negation of the asserted condition ( nmsgs != -1 ) || ( errno != ENODEV )
isInterfaceRemoved(n, e) == n = -1 /\ e = "ENODEV"

isNetworkDown(n, e) == n = -1 /\ e \in {"ENETDOWN", "ENETUNREACH"}

\* recvmmsg returned n and set errno e, having read the frames batch
CanReceived(batch, n, e) ==
    /\ msg' = batch
    /\ nmsgs' = n
    /\ errno' = e
    /\ msgIndex' = 0
    /\ recvCalls' = IF recvCalls < MaxRecvCalls THEN recvCalls + 1 ELSE recvCalls
    /\ readWhileNull' = (mDecoderDictionary = "nullptr")
    /\ batchesSinceWake' = IF batchesSinceWake = -1 \/ batchesSinceWake >= MaxRecvCalls
                           THEN batchesSinceWake ELSE batchesSinceWake + 1
    /\ canLog' = IF isInterfaceRemoved(n, e) THEN "fatal: Network interface was removed"
                 ELSE IF isNetworkDown(n, e) THEN "error: Network interface went down or unreachable"
                 ELSE ""
    /\ networkWasDown' = (networkWasDown \/ isNetworkDown(n, e))
    /\ canPc' = FWE_GRACEFUL_FATAL_ASSERT(~isInterfaceRemoved(n, e), "frames")
    /\ UNCHANGED <<canSharedVars, decoderDictionary, wokeUpFromSleep, lastFrameTime,
                   mReceivedMessages, notTimeMonotonicFrames, processMessage, drained, canOthers>>

\* recvmmsg reads up to PARALLEL_RECEIVED_FRAMES_FROM_KERNEL frames
CanRecvFrames ==
    /\ canPc = "recv"
    /\ recvCalls < MaxRecvCalls
    /\ \E batch \in Batches : CanReceived(batch, Len(batch), "0")

\* recvmmsg fails: nothing to read on the non blocking socket, or the network is
\* down, or the interface is gone
CanRecvFails ==
    /\ canPc = "recv"
    /\ \E e \in Errnos :
          /\ recvCalls >= MaxRecvCalls => e = "EAGAIN"
          /\ CanReceived(<<>>, -1, e)

\* variant: a frame as old as the one before counts as not monotonic too
isNotTimeMonotonicOrEqual(timestamp, last) == timestamp <= last

isNotTimeMonotonic(timestamp, last) == timestamp < last

\* one frame of the batch: passed to the consumer unless the reader woke up
CanFrame ==
    /\ canPc = "frames"
    /\ msgIndex < nmsgs
    /\ msgIndex' = msgIndex + 1
    /\ IF ~wokeUpFromSleep
       THEN LET timestamp == msg[msgIndex + 1] IN
            /\ notTimeMonotonicFrames' = IF isNotTimeMonotonic(timestamp, lastFrameTime)
                                          THEN notTimeMonotonicFrames + 1
                                          ELSE notTimeMonotonicFrames
            /\ lastFrameTime' = timestamp
            /\ mReceivedMessages' = mReceivedMessages + 1
            /\ processMessage' = [dictionary |-> decoderDictionary, timestamp |-> timestamp,
                                   readWhileNull |-> readWhileNull]
       ELSE UNCHANGED <<notTimeMonotonicFrames, lastFrameTime, mReceivedMessages, processMessage>>
    /\ UNCHANGED <<canPc, canSharedVars, decoderDictionary, wokeUpFromSleep, msg, nmsgs, errno,
                   canLog, canHistoryVars, canOthers>>

\* variant: the reader idles after every batch
isAnyBatch(n) == TRUE

\* the batch left room: nothing more is queued in the kernel
isBatchNotFull(n) == n < PARALLEL_RECEIVED_FRAMES_FROM_KERNEL

\* the batch is through: idle wait after a batch that was not full
CanBatchDone ==
    /\ canPc = "frames"
    /\ msgIndex >= nmsgs
    /\ canPc' = IF isBatchNotFull(nmsgs) THEN "idle" ELSE "check"
    /\ drained' = (drained \/ nmsgs < PARALLEL_RECEIVED_FRAMES_FROM_KERNEL)
    /\ UNCHANGED <<canSharedVars, canLocalVars, canOutVars, recvCalls, readWhileNull,
                   batchesSinceWake, networkWasDown, canOthers>>

\* mWait.wait( mIdleTimeMs ) returns, on a notify or after the idle time
CanIdleOver ==
    /\ canPc = "idle"
    /\ canWaitNotify' = FALSE
    /\ wokeUpFromSleep' = FALSE
    /\ canPc' = "check"
    /\ UNCHANGED <<mDecoderDictionary, canShouldStop, decoderDictionary, lastFrameTime, msg, nmsgs,
                   errno, msgIndex, canOutVars, canHistoryVars, canOthers>>

\* if ( shouldStop() ) break
CanCheckStop ==
    /\ canPc = "check"
    /\ canPc' = IF canShouldStop THEN "done" ELSE "loop"
    /\ UNCHANGED <<canSharedVars, canLocalVars, canOutVars, canHistoryVars, canOthers>>

CanReader ==
    \/ CanTakeDictionary
    \/ CanWakeUp
    \/ CanRecvFrames
    \/ CanRecvFails
    \/ CanFrame
    \/ CanBatchDone
    \/ CanIdleOver
    \/ CanCheckStop

\* the reader thread was started and the manager thread is not looked at
InitCAN ==
    /\ ManagerUnused
    /\ ExtractorUnused
    /\ PartialSignalsUnused
    /\ DataSenderManagerWorkerThreadUnused
    /\ WaitUnused
    /\ FlushUnused
    /\ CANDataSourceInit("loop", 0)
    /\ OBDOverCANModuleUnused
    /\ StopUnused

NextCAN == onChangeOfActiveDictionaryOther \/ onChangeOfActiveDictionary \/ CanReader

SpecCAN == InitCAN /\ [][NextCAN]_vars

(* -------------------------- OBDOverCANModule ---------------------------- *)

obdOthers == <<managerVars, extractVars, partialVars, canVars, senderVars, waitVars, flushVars,
               stopVars>>

\* onChangeInspectionMatrix: a matrix with a condition that includes DTCs switches
\* the DTC requests on and notifies, another matrix switches them off
obdOnChangeInspectionMatrix ==
    /\ obdPc # "off"
    /\ \E includeActiveDtcs \in BOOLEAN :
          /\ mShouldRequestDTCs' = includeActiveDtcs
          /\ mDataAvailableWaitNotify' = IF includeActiveDtcs THEN TRUE
                                         ELSE mDataAvailableWaitNotify
    /\ UNCHANGED <<obdPc, obdShouldStop, obdWaitNotify, obdDecoderDictionaryEmpty,
                   obdDecoderManifestAvailable, mPIDRequestIntervalSeconds,
                   mDTCRequestIntervalSeconds, sleepTime, obdEcuVars,
                   obdOthers>>

\* ECUID: the rx IDs an ECU answers with, 0x7E8..0x7EF with 11 bit IDs and
\* 0x18DAF100..0x18DAF1FF with 29 bit IDs
LOWEST_ECU_RX_ID == 2024
HIGHEST_ECU_RX_ID == 2031
LOWEST_ECU_EXTENDED_RX_ID == 417001728
HIGHEST_ECU_EXTENDED_RX_ID == 417001983

\* the masks of getTxIDByRxID: 0xFF, 8, 0x18DA00F1 and 0x8
MASKING_GET_BYTE == 255
MASKING_SHIFT_BITS == 8
MASKING_TEMPLATE_TX_ID == 416940273
MASKING_REMOVE_BYTE == 8

\* a & b, a | b and a << n on uint32_t (no operand of << has more than 8 bits)
RECURSIVE uint32And(_, _)
uint32And(a, b) ==
    IF a = 0 \/ b = 0 THEN 0
    ELSE (a % 2) * (b % 2) + 2 * uint32And(a \div 2, b \div 2)

RECURSIVE uint32Or(_, _)
uint32Or(a, b) ==
    IF a = 0 THEN b
    ELSE IF b = 0 THEN a
    ELSE (IF a % 2 = 1 \/ b % 2 = 1 THEN 1 ELSE 0) + 2 * uint32Or(a \div 2, b \div 2)

uint32Shl(a, n) == a * 2^n

\* variant: the byte of the rx ID is not shifted
getTxIDByRxIDUnshifted(extended, rxId) ==
    IF extended
    THEN uint32Or(uint32And(rxId, MASKING_GET_BYTE), MASKING_TEMPLATE_TX_ID)
    ELSE rxId - MASKING_REMOVE_BYTE

\* getTxIDByRxID
getTxIDByRxID(extended, rxId) ==
    IF extended
    THEN uint32Or(uint32Shl(uint32And(rxId, MASKING_GET_BYTE), MASKING_SHIFT_BITS),
                  MASKING_TEMPLATE_TX_ID)
    ELSE rxId - MASKING_REMOVE_BYTE

\* the frames the bus can deliver after a broadcast: id is the CAN ID without
\* the flags, eff says whether CAN_EFF_FLAG is set
Frames ==
    {[id |-> i, eff |-> FALSE] :
        i \in {LOWEST_ECU_RX_ID - 1, LOWEST_ECU_RX_ID, HIGHEST_ECU_RX_ID}}
    \cup {[id |-> i, eff |-> TRUE] :
        i \in {LOWEST_ECU_EXTENDED_RX_ID, HIGHEST_ECU_EXTENDED_RX_ID,
               HIGHEST_ECU_EXTENDED_RX_ID + 1}}

\* autoDetectECUs: the check of the CAN ID of a response. With 29 bit IDs the
\* flags are masked off; with 11 bit IDs they are not, and CAN_EFF_FLAG (bit 31)
\* takes an extended frame above the range
isValidCANId(extended, frame) ==
    IF extended
    THEN LOWEST_ECU_EXTENDED_RX_ID <= frame.id /\ frame.id <= HIGHEST_ECU_EXTENDED_RX_ID
    ELSE ~frame.eff /\ LOWEST_ECU_RX_ID <= frame.id /\ frame.id <= HIGHEST_ECU_RX_ID

\* the calls of autoDetectECUs on the raw socket up to the last recv
SocketCalls == {"socket", "ioctl", "bind", "write", "poll", "recv"}

\* the PIDs of SID::CURRENT_STATS a dictionary can ask for
EmissionPIDs == {12}

\* the ECUs of a std::set of rx IDs in its order, smallest first
RECURSIVE SortedSeq(_)
SortedSeq(S) ==
    IF S = {} THEN <<>>
    ELSE LET least == CHOOSE x \in S : \A y \in S : x <= y
         IN <<least>> \o SortedSeq(S \ {least})

\* Range of a sequence
Elements(s) == {s[i] : i \in 1..Len(s)}

\* OBDOverCANECU after construction and init()
OBDOverCANECU(rxID, txID, extended) ==
    [rxID |-> rxID, txID |-> txID, isExtendedID |-> extended, hasSupportedPIDs |-> FALSE,
     supportedPIDs |-> {}, pidsToRequest |-> {}, supportedPIDRequests |-> 0]

\* initECUs when init() works on the first n ECUs: one ECU for each rx ID of the
\* set of the responses
initECUs(extended, responses, n) ==
    LET canIDSet == SortedSeq(Elements(responses))
    IN [i \in 1..n |-> OBDOverCANECU(canIDSet[i], getTxIDByRxID(extended, canIDSet[i]),
                                     extended)]

\* OBDOverCANECU::requestReceiveSupportedPIDs: the supported PIDs are requested
\* from the ECU when they are not known, and answer is what the ECU supports
requestReceiveSupportedPIDs(ecu, answer) ==
    IF ecu.hasSupportedPIDs THEN ecu
    ELSE [ecu EXCEPT !.hasSupportedPIDs = TRUE, !.supportedPIDs = answer,
                     !.supportedPIDRequests = @ + 1]

\* variant: the PIDs that are assigned already are taken too
updatePIDRequestListAll(ecu, requested, assigned) ==
    [ecu EXCEPT !.pidsToRequest = requested \cap ecu.supportedPIDs]

\* OBDOverCANECU::updatePIDRequestList: the requested PIDs the ECU supports and
\* that are not assigned yet
updatePIDRequestList(ecu, requested, assigned) ==
    [ecu EXCEPT !.pidsToRequest = (requested \cap ecu.supportedPIDs) \ assigned]

\* assignPIDsToECUs from ECU i on; answers[i] is what ECU i answers when asked
RECURSIVE assignPIDsToECUsFrom(_, _, _, _, _)
assignPIDsToECUsFrom(i, ecus, requested, assigned, answers) ==
    IF i > Len(ecus) THEN [ecus |-> ecus, assigned |-> assigned]
    ELSE LET ecu == updatePIDRequestList(requestReceiveSupportedPIDs(ecus[i], answers[i]),
                                         requested, assigned)
         IN assignPIDsToECUsFrom(i + 1, [ecus EXCEPT ![i] = ecu], requested,
                                 assigned \cup ecu.pidsToRequest, answers)

\* assignPIDsToECUs: the allocation table is cleared and filled again
assignPIDsToECUs(ecus, requested, answers) ==
    assignPIDsToECUsFrom(1, ecus, requested, {}, answers)

\* assignPIDsToECUs sends a request on an ECU socket when an ECU was not asked yet
assignPIDsToECUsDoesIO(ecus) == \E i \in 1..Len(ecus) : ~ecus[i].hasSupportedPIDs

\* onChangeOfActiveDictionary( dictionary, OBD ): a null dictionary or one with
\* another number of channels than one clears the dictionary and returns; else
\* the PIDs are taken over (there can be none), assigned to the ECUs, and the
\* thread is notified
obdOnChangeOfActiveDictionary ==
    /\ obdPc # "off"
    /\ \E usable \in BOOLEAN, pids \in SUBSET EmissionPIDs, empty \in BOOLEAN,
          answers \in [1..Len(mECUs) -> SUBSET EmissionPIDs] :
          IF ~usable
          THEN /\ obdDecoderDictionaryEmpty' = TRUE
               /\ UNCHANGED <<obdDecoderManifestAvailable, mDataAvailableWaitNotify,
                              mPIDsRequestedByDecoderDict, mECUs, mPIDAssigned, ecuIO>>
          ELSE /\ empty => pids = {}
               /\ obdDecoderDictionaryEmpty' = empty
               /\ mPIDsRequestedByDecoderDict' = pids
               /\ LET assignment == assignPIDsToECUs(mECUs, pids, answers)
                  IN /\ mECUs' = assignment.ecus
                     /\ mPIDAssigned' = assignment.assigned
               /\ ecuIO' = IF assignPIDsToECUsDoesIO(mECUs)
                           THEN ecuIO \cup {"onChangeOfActiveDictionary"} ELSE ecuIO
               /\ obdDecoderManifestAvailable' = TRUE
               /\ mDataAvailableWaitNotify' = TRUE
    /\ UNCHANGED <<obdPc, obdShouldStop, obdWaitNotify, mShouldRequestDTCs,
                   mPIDRequestIntervalSeconds, mDTCRequestIntervalSeconds, sleepTime,
                   isExtendedID, canIDResponses, framesLeft, attempts,
                   hasAcquiredSupportedPIDs, dtcCycle, obdOthers>>

obdUnchangedButPc ==
    UNCHANGED <<obdShouldStop, obdWaitNotify, mDataAvailableWaitNotify,
                obdDecoderDictionaryEmpty, mShouldRequestDTCs, obdDecoderManifestAvailable,
                mPIDRequestIntervalSeconds, mDTCRequestIntervalSeconds, sleepTime, obdEcuVars,
                   obdOthers>>

\* while ( ( !finishECUsDetection ) && ( !shouldStop() ) )
ObdDetectLoop ==
    /\ obdPc = "detectLoop"
    /\ obdPc' = IF obdShouldStop THEN "acquireLoop" ELSE "detectCheck"
    /\ obdUnchangedButPc

\* without a dictionary and without DTC requests the thread goes to sleep
ObdDetectCheck ==
    /\ obdPc = "detectCheck"
    /\ obdPc' = IF ~mShouldRequestDTCs /\ obdDecoderDictionaryEmpty
                 THEN "detectSleep" ELSE "detect"
    /\ obdUnchangedButPc

\* mDataAvailableWait.wait( Signal::WaitWithPredicate ) returns on a notify
ObdDetectWakeUp ==
    /\ obdPc = "detectSleep"
    /\ mDataAvailableWaitNotify
    /\ mDataAvailableWaitNotify' = FALSE
    /\ obdPc' = "detect"
    /\ UNCHANGED <<obdShouldStop, obdWaitNotify, obdDecoderDictionaryEmpty, mShouldRequestDTCs,
                   obdDecoderManifestAvailable, mPIDRequestIntervalSeconds,
                   mDTCRequestIntervalSeconds, sleepTime, obdEcuVars,
                   obdOthers>>

\* autoDetectECUs with 11 bit and then 29 bit IDs, its outcome only: no ECU
\* answered, or ECUs answered and were set up, or the set-up failed its assertion
ObdDetect ==
    /\ obdPc = "detect"
    /\ \E canIDResponsesEmpty \in BOOLEAN, initialized \in BOOLEAN :
          obdPc' = IF canIDResponsesEmpty THEN "detectWait"
                   ELSE FWE_GRACEFUL_FATAL_ASSERT(initialized, "acquireLoop")
    /\ obdUnchangedButPc

\* the round goes on to autoDetectECUs with 11 bit IDs
ObdAutoDetect ==
    /\ obdPc = "detect"
    /\ isExtendedID' = FALSE
    /\ canIDResponses' = <<>>
    /\ attempts' = <<>>
    /\ obdPc' = "autoDetect"
    /\ UNCHANGED <<obdShouldStop, obdWaitNotify, mDataAvailableWaitNotify,
                   obdDecoderDictionaryEmpty, mShouldRequestDTCs, obdDecoderManifestAvailable,
                   mPIDRequestIntervalSeconds, mDTCRequestIntervalSeconds, sleepTime,
                   framesLeft, mECUs, hasAcquiredSupportedPIDs, mPIDsRequestedByDecoderDict,
                   mPIDAssigned, ecuIO, dtcCycle, obdOthers>>

\* autoDetectECUs returns false after the call failed
autoDetectECUsFails(call) == [attempts EXCEPT ![Len(attempts)].failed = call]

obdUnchangedByAutoDetect ==
    UNCHANGED <<obdShouldStop, obdWaitNotify, mDataAvailableWaitNotify,
                obdDecoderDictionaryEmpty, mShouldRequestDTCs, obdDecoderManifestAvailable,
                mPIDRequestIntervalSeconds, mDTCRequestIntervalSeconds, sleepTime,
                isExtendedID, mECUs, hasAcquiredSupportedPIDs, mPIDsRequestedByDecoderDict,
                mPIDAssigned, ecuIO, dtcCycle, obdOthers>>

\* autoDetectECUs up to the loop: the raw socket is opened and bound and the
\* broadcast request is written, or one of these calls fails
ObdAutoDetectBroadcast ==
    /\ obdPc = "autoDetect"
    /\ \E failed \in {"none", "socket", "ioctl", "bind", "write"} :
          /\ attempts' = Append(attempts, [extended |-> isExtendedID,
                                           broadcast |-> failed = "none",
                                           responses |-> 0, failed |-> failed])
          /\ obdPc' = IF failed = "none" THEN "autoDetectPoll" ELSE "autoDetectDone"
    /\ UNCHANGED <<canIDResponses, framesLeft>>
    /\ obdUnchangedByAutoDetect

\* autoDetectECUs, one turn of the loop: the loop ends on a stop request, after
\* the second, and when poll times out; poll or recv fails; or a frame is read
\* and its CAN ID is kept when it is one of an ECU. The socket is closed after
\* the loop
ObdAutoDetectPoll ==
    /\ obdPc = "autoDetectPoll"
    /\ \/ /\ \E closed \in BOOLEAN :
                attempts' = IF closed THEN attempts ELSE autoDetectECUsFails("close")
          /\ obdPc' = "autoDetectDone"
          /\ UNCHANGED <<canIDResponses, framesLeft>>
       \/ /\ ~obdShouldStop
          /\ \E failed \in {"poll", "recv"} : attempts' = autoDetectECUsFails(failed)
          /\ obdPc' = "autoDetectDone"
          /\ UNCHANGED <<canIDResponses, framesLeft>>
       \/ /\ ~obdShouldStop
          /\ framesLeft > 0
          /\ \E frame \in Frames :
                IF isValidCANId(isExtendedID, frame)
                THEN /\ canIDResponses' = Append(canIDResponses, frame.id)
                     /\ attempts' = [attempts EXCEPT ![Len(attempts)].responses = @ + 1]
                ELSE UNCHANGED <<canIDResponses, attempts>>
          /\ framesLeft' = framesLeft - 1
          /\ obdPc' = "autoDetectPoll"
    /\ obdUnchangedByAutoDetect

\* variant: the 29 bit request follows the 11 bit request in every round
ObdAutoDetectBoth ==
    /\ obdPc = "autoDetectDone"
    /\ IF ~isExtendedID
       THEN /\ isExtendedID' = TRUE
            /\ obdPc' = "autoDetect"
       ELSE /\ obdPc' = IF canIDResponses # <<>> THEN "initECUs" ELSE "detectWait"
            /\ UNCHANGED isExtendedID
    /\ UNCHANGED <<obdShouldStop, obdWaitNotify, mDataAvailableWaitNotify,
                   obdDecoderDictionaryEmpty, mShouldRequestDTCs, obdDecoderManifestAvailable,
                   mPIDRequestIntervalSeconds, mDTCRequestIntervalSeconds, sleepTime,
                   canIDResponses, framesLeft, attempts, mECUs, hasAcquiredSupportedPIDs,
                   mPIDsRequestedByDecoderDict, mPIDAssigned, ecuIO, dtcCycle, obdOthers>>

\* doWork after autoDetectECUs: without a response to the 11 bit request the 29
\* bit request follows; with responses the ECUs are set up; else the round ends
ObdAutoDetectDone ==
    /\ obdPc = "autoDetectDone"
    /\ IF canIDResponses = <<>> /\ ~isExtendedID
       THEN /\ isExtendedID' = TRUE
            /\ obdPc' = "autoDetect"
       ELSE /\ obdPc' = IF canIDResponses # <<>> THEN "initECUs" ELSE "detectWait"
            /\ UNCHANGED isExtendedID
    /\ UNCHANGED <<obdShouldStop, obdWaitNotify, mDataAvailableWaitNotify,
                   obdDecoderDictionaryEmpty, mShouldRequestDTCs, obdDecoderManifestAvailable,
                   mPIDRequestIntervalSeconds, mDTCRequestIntervalSeconds, sleepTime,
                   canIDResponses, framesLeft, attempts, mECUs, hasAcquiredSupportedPIDs,
                   mPIDsRequestedByDecoderDict, mPIDAssigned, ecuIO, dtcCycle, obdOthers>>

\* the broadcast socket is opened when broadcast mode is on, and the ECUs are
\* set up: init() works on the first n of them. A failure ends doWork
ObdInitECUs ==
    /\ obdPc = "initECUs"
    /\ \E broadcastSocketOpened \in BOOLEAN,
          n \in 0..Cardinality(Elements(canIDResponses)) :
          IF ~broadcastSocketOpened
          THEN /\ obdPc' = FWE_GRACEFUL_FATAL_ASSERT(FALSE, "acquireLoop")
               /\ UNCHANGED mECUs
          ELSE /\ mECUs' = mECUs \o initECUs(isExtendedID, canIDResponses, n)
               /\ obdPc' = FWE_GRACEFUL_FATAL_ASSERT(
                               n = Cardinality(Elements(canIDResponses)), "acquireLoop")
    /\ hasAcquiredSupportedPIDs' = FALSE
    /\ UNCHANGED <<obdShouldStop, obdWaitNotify, mDataAvailableWaitNotify,
                   obdDecoderDictionaryEmpty, mShouldRequestDTCs, obdDecoderManifestAvailable,
                   mPIDRequestIntervalSeconds, mDTCRequestIntervalSeconds, sleepTime,
                   isExtendedID, canIDResponses, framesLeft, attempts,
                   mPIDsRequestedByDecoderDict, mPIDAssigned, ecuIO, dtcCycle, obdOthers>>

\* mWait.wait( SLEEP_TIME_SECS * 1000 ) returns, on a notify or after the second
ObdDetectWaitOver ==
    /\ obdPc = "detectWait"
    /\ obdWaitNotify' = FALSE
    /\ obdPc' = "detectLoop"
    /\ UNCHANGED <<obdShouldStop, mDataAvailableWaitNotify, obdDecoderDictionaryEmpty,
                   mShouldRequestDTCs, obdDecoderManifestAvailable, mPIDRequestIntervalSeconds,
                   mDTCRequestIntervalSeconds, sleepTime, obdEcuVars,
                   obdOthers>>

\* while ( !shouldStop() ); the locals of the discovery are gone
ObdAcquireLoop ==
    /\ obdPc = "acquireLoop"
    /\ obdPc' = IF obdShouldStop THEN "done" ELSE "acquire"
    /\ isExtendedID' = FALSE
    /\ canIDResponses' = <<>>
    /\ attempts' = <<>>
    /\ UNCHANGED <<obdShouldStop, obdWaitNotify, mDataAvailableWaitNotify,
                   obdDecoderDictionaryEmpty, mShouldRequestDTCs, obdDecoderManifestAvailable,
                   mPIDRequestIntervalSeconds, mDTCRequestIntervalSeconds, sleepTime,
                   framesLeft, mECUs, hasAcquiredSupportedPIDs, mPIDsRequestedByDecoderDict,
                   mPIDAssigned, ecuIO, dtcCycle, obdOthers>>

\* the sleep time after the requests: INT64_MAX when both intervals are 0, else
\* what is left of the nearer interval, which is negative when it is overdue
calcSleepTime(pidInterval, dtcInterval) ==
    IF pidInterval = 0 /\ dtcInterval = 0 THEN {"max"} ELSE {"overdue", "left"}

\* OBDOverCANECU::requestReceiveEmissionPIDs sends a request on the socket of an
\* ECU that has PIDs to request
requestReceiveEmissionPIDsDoesIO(ecus) == \E i \in 1..Len(ecus) : ecus[i].pidsToRequest # {}

\* the DTCs an ECU can have stored
DTCCodes == {"P0143"}

\* one cycle, its outcome only: the manifest flag is reset, the PIDs and DTCs
\* that are due are requested, and the sleep time is calculated
ObdAcquire ==
    /\ obdPc = "acquire"
    /\ obdDecoderManifestAvailable' = FALSE
    /\ \E s \in calcSleepTime(mPIDRequestIntervalSeconds, mDTCRequestIntervalSeconds) :
          /\ sleepTime' = s
          /\ obdPc' = IF s = "overdue" THEN "acquireLoop" ELSE "acquireWait"
    /\ UNCHANGED <<obdShouldStop, obdWaitNotify, mDataAvailableWaitNotify,
                   obdDecoderDictionaryEmpty, mShouldRequestDTCs, mPIDRequestIntervalSeconds,
                   mDTCRequestIntervalSeconds, obdEcuVars, obdOthers>>

\* one cycle, first part: the manifest flag is reset, and when the PID timer has
\* expired and there is a dictionary, the PIDs are assigned to the ECUs (the first
\* time only) and requested from them
ObdRequestPIDs ==
    /\ obdPc = "acquire"
    /\ obdDecoderManifestAvailable' = FALSE
    /\ \E pidTimerExpired \in BOOLEAN, answers \in [1..Len(mECUs) -> SUBSET EmissionPIDs] :
          IF mPIDRequestIntervalSeconds > 0 /\ pidTimerExpired /\ ~obdDecoderDictionaryEmpty
          THEN LET assignment ==
                       IF hasAcquiredSupportedPIDs
                       THEN [ecus |-> mECUs, assigned |-> mPIDAssigned]
                       ELSE assignPIDsToECUs(mECUs, mPIDsRequestedByDecoderDict, answers)
               IN /\ hasAcquiredSupportedPIDs' = TRUE
                  /\ mECUs' = assignment.ecus
                  /\ mPIDAssigned' = assignment.assigned
                  /\ ecuIO' = IF \/ ~hasAcquiredSupportedPIDs /\ assignPIDsToECUsDoesIO(mECUs)
                                 \/ requestReceiveEmissionPIDsDoesIO(assignment.ecus)
                              THEN ecuIO \cup {"doWork"} ELSE ecuIO
          ELSE UNCHANGED <<hasAcquiredSupportedPIDs, mECUs, mPIDAssigned, ecuIO>>
    /\ obdPc' = "requestDTCs"
    /\ UNCHANGED <<obdShouldStop, obdWaitNotify, mDataAvailableWaitNotify,
                   obdDecoderDictionaryEmpty, mShouldRequestDTCs, mPIDRequestIntervalSeconds,
                   mDTCRequestIntervalSeconds, sleepTime, isExtendedID, canIDResponses,
                   framesLeft, attempts, mPIDsRequestedByDecoderDict, dtcCycle, obdOthers>>

\* variant: the DTCInfo is pushed after every round of requests
requestDTCsPushAlways(shouldRequestDTCs, ecus, answered, dtcs) ==
    IF shouldRequestDTCs
    THEN [expired |-> TRUE, enabled |-> TRUE,
          requested |-> {ecus[i].rxID : i \in 1..Len(ecus)},
          successful |-> answered # {},
          pushed |-> <<[mDTCCodes |-> IF answered # {} THEN dtcs ELSE {}]>>]
    ELSE [expired |-> TRUE, enabled |-> FALSE, requested |-> {}, successful |-> FALSE,
          pushed |-> <<>>]

\* the DTC timer has expired: with DTC requests on, getDTCData asks every ECU;
\* the ECUs in answered make it return true, and dtcs are the DTCs they report.
\* The DTCInfo is pushed after a request that was successful
requestDTCs(shouldRequestDTCs, ecus, answered, dtcs) ==
    IF shouldRequestDTCs
    THEN [expired |-> TRUE, enabled |-> TRUE,
          requested |-> {ecus[i].rxID : i \in 1..Len(ecus)},
          successful |-> answered # {},
          pushed |-> IF answered # {} THEN <<[mDTCCodes |-> dtcs]>> ELSE <<>>]
    ELSE [expired |-> TRUE, enabled |-> FALSE, requested |-> {}, successful |-> FALSE,
          pushed |-> <<>>]

\* one cycle, second part: the DTCs are requested when the DTC timer has expired,
\* and the sleep time is calculated
ObdRequestDTCs ==
    /\ obdPc = "requestDTCs"
    /\ \E dtcTimerExpired \in BOOLEAN, answered \in SUBSET (1..Len(mECUs)),
          dtcs \in SUBSET DTCCodes :
          /\ answered = {} => dtcs = {}
          /\ IF mDTCRequestIntervalSeconds > 0 /\ dtcTimerExpired
             THEN /\ dtcCycle' = requestDTCs(mShouldRequestDTCs, mECUs, answered, dtcs)
                  /\ ecuIO' = IF mShouldRequestDTCs /\ mECUs # <<>>
                              THEN ecuIO \cup {"doWork"} ELSE ecuIO
             ELSE UNCHANGED <<dtcCycle, ecuIO>>
    /\ \E s \in calcSleepTime(mPIDRequestIntervalSeconds, mDTCRequestIntervalSeconds) :
          /\ sleepTime' = s
          /\ obdPc' = IF s = "overdue" THEN "acquireLoop" ELSE "acquireWait"
    /\ UNCHANGED <<obdShouldStop, obdWaitNotify, mDataAvailableWaitNotify,
                   obdDecoderDictionaryEmpty, mShouldRequestDTCs, obdDecoderManifestAvailable,
                   mPIDRequestIntervalSeconds, mDTCRequestIntervalSeconds, isExtendedID,
                   canIDResponses, framesLeft, attempts, mECUs, hasAcquiredSupportedPIDs,
                   mPIDsRequestedByDecoderDict, mPIDAssigned, obdOthers>>

\* mWait.wait( sleepTime ) returns: on a notify, or when the time that is left is
\* over; the wait for INT64_MAX does not time out
ObdAcquireWaitOver ==
    /\ obdPc = "acquireWait"
    /\ sleepTime = "max" => obdWaitNotify
    /\ obdWaitNotify' = FALSE
    /\ obdPc' = "acquireLoop"
    /\ UNCHANGED <<obdShouldStop, mDataAvailableWaitNotify, obdDecoderDictionaryEmpty,
                   mShouldRequestDTCs, obdDecoderManifestAvailable, mPIDRequestIntervalSeconds,
                   mDTCRequestIntervalSeconds, sleepTime, obdEcuVars,
                   obdOthers>>

\* doWork, with the discovery and the requests as one step each
ObdModule ==
    \/ ObdDetectLoop
    \/ ObdDetectCheck
    \/ ObdDetectWakeUp
    \/ ObdDetect
    \/ ObdDetectWaitOver
    \/ ObdAcquireLoop
    \/ ObdAcquire
    \/ ObdAcquireWaitOver

\* doWork, with the discovery and the requests in their steps
ObdModuleECUs ==
    \/ ObdDetectLoop
    \/ ObdDetectCheck
    \/ ObdDetectWakeUp
    \/ ObdAutoDetect
    \/ ObdAutoDetectBroadcast
    \/ ObdAutoDetectPoll
    \/ ObdAutoDetectDone
    \/ ObdInitECUs
    \/ ObdDetectWaitOver
    \/ ObdAcquireLoop
    \/ ObdRequestPIDs
    \/ ObdRequestDTCs
    \/ ObdAcquireWaitOver

(* -------------------- DataSenderManagerWorkerThread --------------------- *)

senderOthers == <<managerVars, extractVars, partialVars, canVars, obdVars, waitVars, flushVars>>

\* the payloads the persistency can hold
Payloads == {"payload1"}

\* the retry intervals the Sender Worker is constructed with, in ms
RetryIntervals == {0, 2}

\* time passes on the retry timer
SenderTick ==
    /\ senderPc \notin {"off", "done"}
    /\ mRetrySendingPersistedDataTimer < MaxElapsedMs
    /\ mRetrySendingPersistedDataTimer' = mRetrySendingPersistedDataTimer + 1
    /\ UNCHANGED <<senderPc, senderShouldStop, senderWaitNotify,
                   mPersistencyUploadRetryIntervalMs, uploadedPersistedDataOnce,
                   minTimeToWaitMs, connectivityAlive, mDataToSendQueues, persistedPayloads,
                   uploadCheck, checkAndSendRetrievedDataCalls, stopVars, senderOthers>>

\* the connection comes or goes
SenderConnectivity ==
    /\ senderPc \notin {"off", "done"}
    /\ connectivityAlive' = ~connectivityAlive
    /\ UNCHANGED <<senderPc, senderShouldStop, senderWaitNotify,
                   mPersistencyUploadRetryIntervalMs, mRetrySendingPersistedDataTimer,
                   uploadedPersistedDataOnce, minTimeToWaitMs, mDataToSendQueues,
                   persistedPayloads, uploadCheck, checkAndSendRetrievedDataCalls, stopVars,
                   senderOthers>>

\* a payload is put into a queue and onDataReadyToPublish notifies the thread
onDataReadyToPublish ==
    /\ senderPc \notin {"off", "done"}
    /\ mDataToSendQueues < MaxQueued
    /\ mDataToSendQueues' = mDataToSendQueues + 1
    /\ senderWaitNotify' = TRUE
    /\ UNCHANGED <<senderPc, senderShouldStop, mPersistencyUploadRetryIntervalMs,
                   mRetrySendingPersistedDataTimer, uploadedPersistedDataOnce,
                   minTimeToWaitMs, connectivityAlive, persistedPayloads, uploadCheck,
                   checkAndSendRetrievedDataCalls, stopVars, senderOthers>>

\* UINT64_MAX as the time to wait: the wait is not timed
WaitWithPredicate == [timed |-> FALSE, ms |-> 0]

\* the time to wait: what is left of the retry interval, UINT64_MAX without one
timeToWaitMs(retryIntervalMs, elapsedMs) ==
    IF retryIntervalMs > 0
    THEN [timed |-> TRUE,
          ms |-> retryIntervalMs -
                 (IF elapsedMs < retryIntervalMs THEN elapsedMs ELSE retryIntervalMs)]
    ELSE WaitWithPredicate

\* while ( !shouldStop() ): the time to wait is calculated
SenderLoop ==
    /\ senderPc = "loop"
    /\ IF senderShouldStop
       THEN /\ senderPc' = "done"
            /\ UNCHANGED minTimeToWaitMs
       ELSE /\ senderPc' = "wait"
            /\ minTimeToWaitMs' = timeToWaitMs(mPersistencyUploadRetryIntervalMs,
                                               mRetrySendingPersistedDataTimer)
    /\ UNCHANGED <<senderShouldStop, senderWaitNotify, mPersistencyUploadRetryIntervalMs,
                   mRetrySendingPersistedDataTimer, uploadedPersistedDataOnce,
                   connectivityAlive, mDataToSendQueues, persistedPayloads, uploadCheck,
                   checkAndSendRetrievedDataCalls, stopVars, senderOthers>>

\* mWait.wait returns: on a notify, or, when the wait is timed, once the retry
\* interval is over
SenderWaitOver ==
    /\ senderPc = "wait"
    /\ \/ senderWaitNotify
       \/ /\ minTimeToWaitMs.timed
          /\ mRetrySendingPersistedDataTimer >= mPersistencyUploadRetryIntervalMs
    /\ senderWaitNotify' = FALSE
    /\ senderPc' = "process"
    /\ UNCHANGED <<senderShouldStop, mPersistencyUploadRetryIntervalMs,
                   mRetrySendingPersistedDataTimer, uploadedPersistedDataOnce,
                   minTimeToWaitMs, connectivityAlive, mDataToSendQueues, persistedPayloads,
                   uploadCheck, checkAndSendRetrievedDataCalls, stopVars, senderOthers>>

\* variant: a retry interval of 0 counts as an interval that is over
uploadIsDueOnAnyInterval(uploadedOnce, retryIntervalMs, elapsedMs) ==
    ~uploadedOnce \/ elapsedMs >= retryIntervalMs

\* the upload of the persisted data is due: it never happened, or the retry
\* interval is over
uploadIsDue(uploadedOnce, retryIntervalMs, elapsedMs) ==
    ~uploadedOnce \/ (retryIntervalMs > 0 /\ elapsedMs >= retryIntervalMs)

\* variant: the upload goes on without a connection
uploadGoesOnAnyway(alive) == TRUE

\* mConnectivityModule.isAlive() lets the upload go on
uploadGoesOn(alive) == alive

\* the rest of the iteration: the queues are emptied, and when the upload of the
\* persisted data is due the retry timer is reset and, with a connection,
\* checkAndSendRetrievedData retrieves the stored payloads and sends them
SenderProcess ==
    /\ senderPc = "process"
    /\ mDataToSendQueues' = 0
    /\ LET due == uploadIsDue(uploadedPersistedDataOnce, mPersistencyUploadRetryIntervalMs,
                              mRetrySendingPersistedDataTimer)
           called == due /\ uploadGoesOn(connectivityAlive)
       IN /\ uploadCheck' = [due |-> due, alive |-> connectivityAlive, called |-> called,
                             elapsedMs |-> mRetrySendingPersistedDataTimer,
                             uploadedBefore |-> uploadedPersistedDataOnce,
                             retrieved |-> IF called THEN persistedPayloads ELSE {}]
          /\ mRetrySendingPersistedDataTimer' =
                IF due THEN 0 ELSE mRetrySendingPersistedDataTimer
          /\ uploadedPersistedDataOnce' = (uploadedPersistedDataOnce \/ called)
          /\ checkAndSendRetrievedDataCalls' =
                IF called /\ checkAndSendRetrievedDataCalls < MaxUploads
                THEN checkAndSendRetrievedDataCalls + 1
                ELSE checkAndSendRetrievedDataCalls
          /\ \E sent \in BOOLEAN :
                persistedPayloads' = IF called /\ sent THEN {} ELSE persistedPayloads
    /\ senderPc' = "loop"
    /\ UNCHANGED <<senderShouldStop, senderWaitNotify, mPersistencyUploadRetryIntervalMs,
                   minTimeToWaitMs, connectivityAlive, stopVars, senderOthers>>

SenderWorker ==
    \/ SenderLoop
    \/ SenderWaitOver
    \/ SenderProcess

senderStopUnchanged ==
    UNCHANGED <<senderPc, mPersistencyUploadRetryIntervalMs,
                mRetrySendingPersistedDataTimer, uploadedPersistedDataOnce, minTimeToWaitMs,
                connectivityAlive, mDataToSendQueues, persistedPayloads, uploadCheck,
                checkAndSendRetrievedDataCalls, mShouldStop, senderOthers>>

\* DataSenderManagerWorkerThread::stop on a thread that is valid and active:
\* mShouldStop.store( true )
SenderStopStore ==
    /\ senderPc \notin {"off", "done"}
    /\ stopPc = "idle"
    /\ senderShouldStop' = TRUE
    /\ stopPc' = "notify"
    /\ stopFound' = senderPc
    /\ UNCHANGED senderWaitNotify
    /\ senderStopUnchanged

\* DataSenderManagerWorkerThread::stop: mWait.notify()
SenderStopNotify ==
    /\ senderPc # "off"
    /\ stopPc = "notify"
    /\ senderWaitNotify' = TRUE
    /\ stopPc' = "join"
    /\ UNCHANGED <<senderShouldStop, stopFound>>
    /\ senderStopUnchanged

\* DataSenderManagerWorkerThread::stop: mThread.release(); mShouldStop.store( false )
SenderStopJoin ==
    /\ senderPc = "done"
    /\ stopPc = "join"
    /\ senderShouldStop' = FALSE
    /\ stopPc' = "stopped"
    /\ UNCHANGED <<senderWaitNotify, stopFound>>
    /\ senderStopUnchanged

\* the Sender Worker thread was started
InitSender ==
    /\ ManagerUnused
    /\ ExtractorUnused
    /\ PartialSignalsUnused
    /\ CANDataSourceUnused
    /\ OBDOverCANModuleUnused
    /\ \E retryIntervalMs \in RetryIntervals, payloads \in SUBSET Payloads :
          DataSenderManagerWorkerThreadInit("loop", retryIntervalMs, payloads)
    /\ WaitUnused
    /\ FlushUnused
    /\ StopUnused

NextSender ==
    \/ SenderTick
    \/ SenderConnectivity
    \/ onDataReadyToPublish
    \/ SenderWorker
    \/ SenderStopStore
    \/ SenderStopNotify
    \/ SenderStopJoin

SpecSender == InitSender /\ [][NextSender]_vars

(* ----------------------- the wait after a pass -------------------------- *)

\* static_cast<uint32_t>( x ) of a time difference x >= 0
static_cast_uint32_t(x) == x % 2^UINT32_WIDTH

\* std::min
min(a, b) == IF b < a THEN b ELSE a

\* uint32_t waitTimeMs = std::min( static_cast<uint32_t>( top - now ), mIdleTimeMs )
waitTimeMs(top, currentSystemTime, idleTimeMs) ==
    min(static_cast_uint32_t(top - currentSystemTime), idleTimeMs)

\* doWork after a pass: the wait on the Timeline with this top entry
waitAfterPass(empty, top, currentSystemTime, idleTimeMs) ==
    IF empty THEN [kind |-> "waitNotify", ms |-> 0]
    ELSE IF currentSystemTime >= top THEN [kind |-> "avail", ms |-> 0]
    ELSE [kind |-> "waitTimed", ms |-> waitTimeMs(top, currentSystemTime, idleTimeMs)]

\* the Timeline is empty or has a top entry, the clock shows a time, and the
\* idle time is one a uint32_t holds
InitWait ==
    /\ ManagerUnused
    /\ ExtractorUnused
    /\ PartialSignalsUnused
    /\ CANDataSourceUnused
    /\ OBDOverCANModuleUnused
    /\ DataSenderManagerWorkerThreadUnused
    /\ waitCall \in [empty : BOOLEAN, top : 0..MaxTimeMs, currentSystemTime : 0..MaxTimeMs,
                     mIdleTimeMs : 1..(2^UINT32_WIDTH - 1)]
    /\ waitCall.empty => waitCall.top = 0
    /\ waitResult = NoWait
    /\ FlushUnused
    /\ StopUnused

\* doWork reaches the end of the pass
DoWorkWait ==
    /\ waitResult = NoWait
    /\ waitCall.mIdleTimeMs > 0
    /\ waitResult' = waitAfterPass(waitCall.empty, waitCall.top, waitCall.currentSystemTime,
                                   waitCall.mIdleTimeMs)
    /\ UNCHANGED <<waitCall, managerVars, extractVars, partialVars, canVars, obdVars,
                   senderVars, flushVars, stopVars>>

NextWait == DoWorkWait

SpecWait == InitWait /\ [][NextWait]_vars

(* ----------------------- OBDOverCANModule::flush ------------------------ *)

flushOthers == <<managerVars, extractVars, partialVars, canVars, obdVars, senderVars, waitVars,
                 stopVars>>

\* the values of a uint32_t
UInt32 == 0..(2^UINT32_WIDTH - 1)

\* variant: the time needed is subtracted from the time left as uint32_t
timeLeftAfterUnchecked(left, timeNeededMs) == (left - timeNeededMs) % 2^UINT32_WIDTH

\* flush: timeLeftMs after a drain that reports timeNeededMs
timeLeftAfter(left, timeNeededMs) ==
    IF timeNeededMs >= left THEN 0 ELSE (left - timeNeededMs) % 2^UINT32_WIDTH

\* if ( ecu.get() == &exceptECU )
isExceptECU(ecu, exceptECU) == ecu = exceptECU

\* flush is called after a request to one of the ECUs of mECUs, in broadcast mode
\* or not, for count requests
InitFlush ==
    /\ ManagerUnused
    /\ ExtractorUnused
    /\ PartialSignalsUnused
    /\ CANDataSourceUnused
    /\ OBDOverCANModuleUnused
    /\ DataSenderManagerWorkerThreadUnused
    /\ WaitUnused
    /\ StopUnused
    /\ flushCall \in [mBroadcastRequests : BOOLEAN, mECUs : 1..MaxECUs, exceptECU : 1..MaxECUs,
                      count : 0..MaxCount]
    /\ flushCall.exceptECU <= flushCall.mECUs
    /\ flushPc = "call"
    /\ flushEcu = 0
    /\ flushI = 0
    /\ timeLeftMs = 0
    /\ ecuFlushCalls = [ecu \in 1..flushCall.mECUs |-> 0]
    /\ ecuFlush = NoDrain

\* flush: if ( !mBroadcastRequests ) return; timeLeftMs = P2_TIMEOUT_DEFAULT_MS
FlushBegin ==
    /\ flushPc = "call"
    /\ IF ~flushCall.mBroadcastRequests
       THEN /\ flushPc' = "done"
            /\ UNCHANGED <<flushEcu, timeLeftMs>>
       ELSE /\ flushPc' = "ecus"
            /\ flushEcu' = 1
            /\ timeLeftMs' = P2_TIMEOUT_DEFAULT_MS
    /\ UNCHANGED <<flushCall, flushI, ecuFlushCalls, ecuFlush, flushOthers>>

\* flush: the next ECU of mECUs; the ECU of the request is left out
FlushECU ==
    /\ flushPc = "ecus"
    /\ flushEcu <= flushCall.mECUs
    /\ IF isExceptECU(flushEcu, flushCall.exceptECU)
       THEN /\ flushEcu' = flushEcu + 1
            /\ UNCHANGED <<flushPc, flushI>>
       ELSE /\ flushPc' = "drain"
            /\ flushI' = 0
            /\ UNCHANGED flushEcu
    /\ UNCHANGED <<flushCall, timeLeftMs, ecuFlushCalls, ecuFlush, flushOthers>>

\* flush: timeNeededMs = ecu->flush( timeLeftMs ), and the time left after it; the
\* ECU reports any time
FlushDrain ==
    /\ flushPc = "drain"
    /\ flushI < flushCall.count
    /\ \E timeNeededMs \in UInt32 :
           /\ timeLeftMs' = timeLeftAfter(timeLeftMs, timeNeededMs)
           /\ ecuFlush' = [timeLeftMs |-> timeLeftMs, timeNeededMs |-> timeNeededMs]
    /\ ecuFlushCalls' = [ecuFlushCalls EXCEPT ![flushEcu] = @ + 1]
    /\ flushI' = flushI + 1
    /\ UNCHANGED <<flushCall, flushPc, flushEcu, flushOthers>>

\* flush: the ECU was drained count times
FlushDrained ==
    /\ flushPc = "drain"
    /\ flushI >= flushCall.count
    /\ flushPc' = "ecus"
    /\ flushEcu' = flushEcu + 1
    /\ UNCHANGED <<flushCall, flushI, timeLeftMs, ecuFlushCalls, ecuFlush, flushOthers>>

\* flush: the end of mECUs
FlushReturn ==
    /\ flushPc = "ecus"
    /\ flushEcu > flushCall.mECUs
    /\ flushPc' = "done"
    /\ UNCHANGED <<flushCall, flushEcu, flushI, timeLeftMs, ecuFlushCalls, ecuFlush, flushOthers>>

NextFlush == FlushBegin \/ FlushECU \/ FlushDrain \/ FlushDrained \/ FlushReturn

SpecFlush == InitFlush /\ [][NextFlush]_vars

(* ------------------------------- stop() --------------------------------- *)

\* CollectionSchemeManager::stop: mShouldStop.store( true )
ManagerStopStore ==
    /\ pc \notin {"off", "done"}
    /\ stopPc = "idle"
    /\ mShouldStop' = TRUE
    /\ stopPc' = "notify"
    /\ stopFound' = pc
    /\ UNCHANGED <<managerVars, extractVars, partialVars, canVars, obdVars, senderVars, waitVars, flushVars>>

\* variant: stop() does not notify the worker
ManagerStopSilent ==
    /\ pc # "off"
    /\ stopPc = "notify"
    /\ stopPc' = "join"
    /\ UNCHANGED <<managerVars, mShouldStop, stopFound, extractVars, partialVars, canVars, obdVars, senderVars, waitVars, flushVars>>

\* CollectionSchemeManager::stop: mWait.notify()
ManagerStopNotify ==
    /\ pc # "off"
    /\ stopPc = "notify"
    /\ mWaitNotify' = TRUE
    /\ stopPc' = "join"
    /\ UNCHANGED <<now, pc, mCurrentDecoderManifestID, mailboxVars, takenVars, mapVars,
                   localVars, outVars, dmBuilt, csBuilt, expiryUpdate, transitions, rejected,
                   mShouldStop, stopFound, extractVars, partialVars, canVars, obdVars, senderVars, waitVars, flushVars>>

\* CollectionSchemeManager::stop: mThread.release() returns when doWork has
\* returned; mShouldStop.store( false )
ManagerStopJoin ==
    /\ pc = "done"
    /\ stopPc = "join"
    /\ mShouldStop' = FALSE
    /\ stopPc' = "stopped"
    /\ UNCHANGED <<managerVars, stopFound, extractVars, partialVars, canVars, obdVars, senderVars, waitVars, flushVars>>

\* CANDataSource::stop: mShouldStop.store( true )
CanStopStore ==
    /\ canPc \notin {"off", "done"}
    /\ stopPc = "idle"
    /\ canShouldStop' = TRUE
    /\ stopPc' = "notify"
    /\ stopFound' = canPc
    /\ UNCHANGED <<canPc, mDecoderDictionary, canWaitNotify, canLocalVars, canOutVars,
                   canHistoryVars, mShouldStop, managerVars, extractVars, partialVars, obdVars, senderVars, waitVars, flushVars>>

\* CANDataSource::stop: mWait.notify()
CanStopNotify ==
    /\ canPc # "off"
    /\ stopPc = "notify"
    /\ canWaitNotify' = TRUE
    /\ stopPc' = "join"
    /\ UNCHANGED <<canPc, mDecoderDictionary, canShouldStop, canLocalVars, canOutVars,
                   canHistoryVars, mShouldStop, stopFound, managerVars, extractVars,
                   partialVars, obdVars, senderVars, waitVars, flushVars>>

\* CANDataSource::stop: mThread.release(); mShouldStop.store( false )
CanStopJoin ==
    /\ canPc = "done"
    /\ stopPc = "join"
    /\ canShouldStop' = FALSE
    /\ stopPc' = "stopped"
    /\ UNCHANGED <<canPc, mDecoderDictionary, canWaitNotify, canLocalVars, canOutVars,
                   canHistoryVars, mShouldStop, stopFound, managerVars, extractVars,
                   partialVars, obdVars, senderVars, waitVars, flushVars>>

obdStopUnchanged ==
    UNCHANGED <<obdPc, obdDecoderDictionaryEmpty, mShouldRequestDTCs,
                obdDecoderManifestAvailable, mPIDRequestIntervalSeconds,
                mDTCRequestIntervalSeconds, sleepTime, obdEcuVars, mShouldStop,
                managerVars, extractVars, partialVars, canVars, senderVars, waitVars, flushVars>>

\* OBDOverCANModule::stop on a thread that is valid and active:
\* mShouldStop.store( true )
ObdStopStore ==
    /\ obdPc \notin {"off", "done"}
    /\ stopPc = "idle"
    /\ obdShouldStop' = TRUE
    /\ stopPc' = "notify"
    /\ stopFound' = obdPc
    /\ UNCHANGED <<obdWaitNotify, mDataAvailableWaitNotify>>
    /\ obdStopUnchanged

\* OBDOverCANModule::stop: mWait.notify()
ObdStopNotify ==
    /\ obdPc # "off"
    /\ stopPc = "notify"
    /\ obdWaitNotify' = TRUE
    /\ stopPc' = "notifyData"
    /\ UNCHANGED <<obdShouldStop, mDataAvailableWaitNotify, stopFound>>
    /\ obdStopUnchanged

\* OBDOverCANModule::stop: mDataAvailableWait.notify()
ObdStopNotifyData ==
    /\ obdPc # "off"
    /\ stopPc = "notifyData"
    /\ mDataAvailableWaitNotify' = TRUE
    /\ stopPc' = "join"
    /\ UNCHANGED <<obdShouldStop, obdWaitNotify, stopFound>>
    /\ obdStopUnchanged

\* OBDOverCANModule::stop: mThread.release(); mShouldStop.store( false )
ObdStopJoin ==
    /\ obdPc = "done"
    /\ stopPc = "join"
    /\ obdShouldStop' = FALSE
    /\ stopPc' = "stopped"
    /\ UNCHANGED <<obdWaitNotify, mDataAvailableWaitNotify, stopFound>>
    /\ obdStopUnchanged

\* stop() goes on after its first statement
StopProceeds ==
    \/ ManagerStopNotify
    \/ ManagerStopJoin
    \/ CanStopNotify
    \/ CanStopJoin
    \/ ObdStopNotify
    \/ ObdStopNotifyData
    \/ ObdStopJoin

\* the OBD module thread was started, with PID and DTC requests on or off
InitOBD ==
    /\ ManagerUnused
    /\ ExtractorUnused
    /\ PartialSignalsUnused
    /\ DataSenderManagerWorkerThreadUnused
    /\ WaitUnused
    /\ FlushUnused
    /\ CANDataSourceUnused
    /\ \E pidInterval \in {0, 1}, dtcInterval \in {0, 1} :
          OBDOverCANModuleInit("detectLoop", pidInterval, dtcInterval)
    /\ OBDOverCANECUsInit(0)
    /\ StopUnused

\* the OBD module thread was started on a bus that delivers up to MaxFrames frames
InitOBDOverCAN ==
    /\ ManagerUnused
    /\ ExtractorUnused
    /\ PartialSignalsUnused
    /\ DataSenderManagerWorkerThreadUnused
    /\ WaitUnused
    /\ FlushUnused
    /\ CANDataSourceUnused
    /\ \E pidInterval \in {0, 1}, dtcInterval \in {0, 1} :
          OBDOverCANModuleInit("detectLoop", pidInterval, dtcInterval)
    /\ OBDOverCANECUsInit(MaxFrames)
    /\ StopUnused

NextOBDOverCAN ==
    \/ obdOnChangeInspectionMatrix
    \/ obdOnChangeOfActiveDictionary
    \/ ObdModuleECUs

SpecOBDOverCAN == InitOBDOverCAN /\ [][NextOBDOverCAN]_vars

\* the Policy Manager thread was started, with or without a stored scheme list
InitManagerStop ==
    /\ InitMembers
    /\ persistedDecoderManifest = NullDM
    /\ persistedCollectionSchemeList \in StoredSchemeLists
    /\ OthersUnused

\* the CAN reader thread was started on a socket with frames for one more call
InitCANStop ==
    /\ ManagerUnused
    /\ ExtractorUnused
    /\ PartialSignalsUnused
    /\ DataSenderManagerWorkerThreadUnused
    /\ WaitUnused
    /\ FlushUnused
    /\ CANDataSourceInit("loop", MaxRecvCalls - 1)
    /\ OBDOverCANModuleUnused
    /\ StopUnused

\* one of the three workers was started
InitStop == InitManagerStop \/ InitCANStop \/ InitOBD

NextStop ==
    \/ PostDecoderManifest
    \/ Manager
    \/ onChangeOfActiveDictionaryOther
    \/ onChangeOfActiveDictionary
    \/ CanReader
    \/ obdOnChangeInspectionMatrix
    \/ obdOnChangeOfActiveDictionary
    \/ ObdModule
    \/ ManagerStopStore
    \/ CanStopStore
    \/ ObdStopStore
    \/ StopProceeds

\* every thread that can take a step takes one, and stop() runs to its end
SpecStop ==
    /\ InitStop
    /\ [][NextStop]_vars
    /\ WF_vars(Manager)
    /\ WF_vars(CanReader)
    /\ WF_vars(ObdModule)
    /\ WF_vars(StopProceeds)

(* ------------------------------ claims ---------------------------------- *)

\* the schemes held by the Enabled map and by the Idle map
LoadedSchemes ==
    {mEnabledCollectionSchemeMap[id] : id \in DOMAIN mEnabledCollectionSchemeMap}
        \cup {mIdleCollectionSchemeMap[id] : id \in DOMAIN mIdleCollectionSchemeMap}

\* C1: at the end of a pass whose Timeline check ran at clock value checkTime, no
\* scheme with expiry <= checkTime is in the Enabled map or in the Idle map
C1_NoExpiredSchemeLoaded ==
    pc = "endpass" => \A cs \in LoadedSchemes : cs.expiry > checkTime

\* C2 (as stated): at the end of a pass whose Timeline check ran at clock value
\* checkTime, every scheme in the Enabled map has start <= checkTime
C2_EnabledSchemesStarted ==
    pc = "endpass" =>
        \A id \in DOMAIN mEnabledCollectionSchemeMap :
            mEnabledCollectionSchemeMap[id].start <= checkTime

\* C2 (amended): a scheme enters the Enabled map only with start <= the clock value
\* of the step; a scheme that is already Enabled stays Enabled whatever its start
\* time, and is replaced only by the scheme of the same ID in the list being
\* processed
C2_EnabledOnlyWhenStarted ==
    [][\A id \in DOMAIN mEnabledCollectionSchemeMap' :
          \/ mEnabledCollectionSchemeMap'[id].start <= now'
          \/ /\ id \in DOMAIN mEnabledCollectionSchemeMap
             /\ \/ mEnabledCollectionSchemeMap'[id] = mEnabledCollectionSchemeMap[id]
                \/ /\ pc = "procCS"
                   /\ mEnabledCollectionSchemeMap'[id]
                          \in Range(mCollectionSchemeList.schemes)]_vars

\* C2 witness: a pass ends with an Enabled scheme whose start lies in the future
C2_EnabledWithFutureStart ==
    /\ pc = "endpass"
    /\ \E id \in DOMAIN mEnabledCollectionSchemeMap :
          mEnabledCollectionSchemeMap[id].start > checkTime

\* the step moves id from the Idle map to the Enabled map
StartedStep(id) ==
    id \in DOMAIN mIdleCollectionSchemeMap /\ id \in DOMAIN mEnabledCollectionSchemeMap'

\* the step takes id out of the Enabled map
StoppedStep(id) ==
    id \in DOMAIN mEnabledCollectionSchemeMap /\ id \notin DOMAIN mEnabledCollectionSchemeMap'

\* the step is an iteration of checkTimeLine that pops the entry (t, id)
PoppedEntry(t, id) == pc = "checkLoop" /\ mTimeLine'[<<t, id>>] < mTimeLine[<<t, id>>]

PoppedFor(id) == \E t \in Times : PoppedEntry(t, id)

\* the schemes with this ID in the list the manager holds
ReceivedWithID(id) == {cs \in Range(mCollectionSchemeList.schemes) : cs.id = id}

\* C3 (as stated): a loaded scheme that is in the received list moves from Idle to
\* Enabled, or leaves Enabled, only in a step of checkTimeLine that pops a Timeline
\* entry for it
C3_OnlyTimelineFlips ==
    [][\A id \in SchemeIDs :
          (StartedStep(id) \/ StoppedStep(id)) /\ ReceivedWithID(id) # {}
              => PoppedFor(id)]_vars

\* C3 (amended): such a scheme moves from Idle to Enabled when checkTimeLine pops
\* the entry of its start time, or when the list being processed holds it with
\* start <= now < expiry; it leaves Enabled when checkTimeLine pops the entry of
\* its expiry time, or when the list being processed holds it with expiry <= now
C3_FlipsByTimelineOrList ==
    [][\A id \in SchemeIDs :
          /\ StartedStep(id) /\ ReceivedWithID(id) # {} =>
                \/ /\ PoppedEntry(mIdleCollectionSchemeMap[id].start, id)
                   /\ mIdleCollectionSchemeMap[id].start <= checkTime
                \/ /\ pc = "procCS"
                   /\ \E cs \in ReceivedWithID(id) :
                         /\ cs.start <= now' /\ now' < cs.expiry
                         /\ mEnabledCollectionSchemeMap'[id] = cs
          /\ StoppedStep(id) /\ ReceivedWithID(id) # {} =>
                \/ /\ PoppedEntry(mEnabledCollectionSchemeMap[id].expiry, id)
                   /\ mEnabledCollectionSchemeMap[id].expiry <= checkTime
                \/ /\ pc = "procCS"
                   /\ \E cs \in ReceivedWithID(id) : cs.expiry <= now']_vars

\* C3 witness: the processing of a list has moved a scheme from Idle to Enabled,
\* and another time has dropped an Enabled scheme that the list still held
C3_ListFlippedScheme ==
    /\ pc = "check"
    /\ \E id \in SchemeIDs : <<id, "start", "list">> \in transitions
    /\ \E id \in SchemeIDs : <<id, "stop", "list">> \in transitions

\* the entry e carries the time of interest of a loaded scheme: the expiry time of
\* an Enabled one, the start time of an Idle one
MatchesScheme(e) ==
    \/ /\ e[2] \in DOMAIN mEnabledCollectionSchemeMap
       /\ e[1] = mEnabledCollectionSchemeMap[e[2]].expiry
    \/ /\ e[2] \notin DOMAIN mEnabledCollectionSchemeMap
       /\ e[2] \in DOMAIN mIdleCollectionSchemeMap
       /\ e[1] = mIdleCollectionSchemeMap[e[2]].start

\* C4: an entry popped by checkTimeLine that carries the expiry time of its Enabled
\* scheme takes that scheme out of Enabled, one that carries the start time of its
\* Idle scheme moves that scheme to Enabled, and no other scheme is touched; any
\* other popped entry leaves the Enabled map, the Idle map and the changed flag
\* as they are
C4_TimelineSoundness ==
    [][\A e \in Entries : PoppedEntry(e[1], e[2]) =>
          IF MatchesScheme(e)
          THEN /\ e[2] \notin DOMAIN mIdleCollectionSchemeMap'
               /\ IF e[2] \in DOMAIN mEnabledCollectionSchemeMap
                  THEN /\ mEnabledCollectionSchemeMap' = Erase(mEnabledCollectionSchemeMap, e[2])
                       /\ mIdleCollectionSchemeMap' = mIdleCollectionSchemeMap
                  ELSE /\ mEnabledCollectionSchemeMap' =
                              Put(mEnabledCollectionSchemeMap, e[2],
                                  mIdleCollectionSchemeMap[e[2]])
                       /\ mIdleCollectionSchemeMap' = Erase(mIdleCollectionSchemeMap, e[2])
               /\ ret'
          ELSE /\ mEnabledCollectionSchemeMap' = mEnabledCollectionSchemeMap
               /\ mIdleCollectionSchemeMap' = mIdleCollectionSchemeMap
               /\ ret' = ret]_vars

\* C4 witness: checkTimeLine has enabled a scheme, disabled a scheme and discarded
\* an entry
C4_PoppedEveryKind ==
    /\ \E id \in SchemeIDs : <<id, "start", "timeline">> \in transitions
    /\ \E id \in SchemeIDs : <<id, "stop", "timeline">> \in transitions
    /\ \E id \in SchemeIDs : <<id, "discard", "timeline">> \in transitions

\* C5: after a list has changed the expiry of an Enabled scheme from old to new
\* (with now < new), a pass that ends at a clock value before new leaves the scheme
\* Enabled with expiry new, a pass that ends at a clock value from new on leaves it
\* out of the Enabled map, and the pop of the original entry (old, id) changes
\* neither map nor the changed flag
C5_ExpiryUpdate ==
    [][\A id \in SchemeIDs :
          /\ pc' = "endpass" /\ expiryUpdate'[id] # NoUpdate =>
                IF checkTime' < expiryUpdate'[id].new
                THEN /\ id \in DOMAIN mEnabledCollectionSchemeMap'
                     /\ mEnabledCollectionSchemeMap'[id].expiry = expiryUpdate'[id].new
                ELSE id \notin DOMAIN mEnabledCollectionSchemeMap'
          /\ expiryUpdate[id] # NoUpdate /\ PoppedEntry(expiryUpdate[id].old, id) =>
                /\ mEnabledCollectionSchemeMap' = mEnabledCollectionSchemeMap
                /\ mIdleCollectionSchemeMap' = mIdleCollectionSchemeMap
                /\ ret' = ret]_vars

\* C5 witness: the expiry of the Enabled scheme P1 was cut from MaxTime to
\* MaxTime - 1, P1 was disabled by the Timeline, and the original entry
\* (MaxTime, P1) has been popped and discarded
C5_ShortenedExpiryServed ==
    /\ expiryUpdate[IdSeq[1]] = [old |-> MaxTime, new |-> MaxTime - 1]
    /\ <<IdSeq[1], "stop", "timeline">> \in transitions
    /\ <<IdSeq[1], "discard", "timeline">> \in transitions
    /\ mTimeLine[<<MaxTime, IdSeq[1]>>] = 0
    /\ IdSeq[1] \notin DOMAIN mEnabledCollectionSchemeMap

\* C6: no scheme ID is in both maps; an ID enters the Idle map only when a list
\* that holds it is processed while it is not in the Enabled map; and an ID
\* leaves the Enabled map only when checkTimeLine pops the entry of its expiry
\* time, or a list is processed that does not hold it or holds it with
\* expiry <= now. So an ID seen Enabled and later Idle was removed from Enabled
\* and delivered again in between
C6_MonotoneActivation ==
    [][\A id \in SchemeIDs :
          /\ ~(id \in DOMAIN mEnabledCollectionSchemeMap'
                 /\ id \in DOMAIN mIdleCollectionSchemeMap')
          /\ id \in DOMAIN mIdleCollectionSchemeMap'
                 /\ id \notin DOMAIN mIdleCollectionSchemeMap =>
                /\ pc = "procCS"
                /\ id \notin DOMAIN mEnabledCollectionSchemeMap
                /\ mIdleCollectionSchemeMap'[id] \in ReceivedWithID(id)
          /\ StoppedStep(id) =>
                \/ /\ PoppedEntry(mEnabledCollectionSchemeMap[id].expiry, id)
                   /\ mEnabledCollectionSchemeMap[id].expiry <= checkTime
                \/ /\ pc = "procCS"
                   /\ \A cs \in ReceivedWithID(id) : cs.expiry <= now']_vars

\* C6 witness: a scheme ID that was Enabled before is in the Idle map
C6_IdleAfterEnabled ==
    \E id \in DOMAIN mIdleCollectionSchemeMap :
        \E cause \in {"list", "timeline"} :
            <<id, "add", cause>> \in transitions \/ <<id, "start", cause>> \in transitions

\* C7: when a received manifest is processed, it replaces the current manifest
\* ID, is persisted and sets decoderManifestChanged if it builds and its ID
\* differs from the current one; otherwise (same ID, or no build) the current ID
\* and the persisted manifest stay, no listener is notified and
\* decoderManifestChanged is false
C7_ManifestReplacement ==
    [][pc = "procDM" /\ pc' = "procCS" /\ mProcessDecoderManifest =>
          IF /\ mDecoderManifest.ptr # 0
             /\ mDecoderManifest.ok
             /\ mDecoderManifest.id # mCurrentDecoderManifestID
          THEN /\ mCurrentDecoderManifestID' = mDecoderManifest.id
               /\ persistedDecoderManifest' = mDecoderManifest
               /\ decoderManifestChanged'
          ELSE /\ mCurrentDecoderManifestID' = mCurrentDecoderManifestID
               /\ persistedDecoderManifest' = persistedDecoderManifest
               /\ ~decoderManifestChanged'
               /\ passLog' = <<>>]_vars

\* C7 witness: after one manifest was accepted and persisted, another manifest
\* with the same ID has been built and dropped
C7_SameIDDropped ==
    /\ pc = "procCS"
    /\ mDecoderManifest.ok
    /\ mDecoderManifest.ptr \in dmBuilt
    /\ mDecoderManifest.id = mCurrentDecoderManifestID
    /\ persistedDecoderManifest.ptr # 0
    /\ persistedDecoderManifest.ptr # mDecoderManifest.ptr
    /\ ~decoderManifestChanged

\* the thread positions at which every input taken over so far has been processed
ProcessedPositions ==
    {"check", "checkLoop", "checkin", "endpass", "waitNotify", "waitTimed", "avail"}

\* C8 (as stated): every received manifest or list that was missing or failed to
\* build has incremented the error counter
C8_MissingOrFailedCounted ==
    pc \in ProcessedPositions => errorCount = rejected.missing + rejected.failed

\* C8 (amended): the error counter counts the received inputs that failed to
\* build; processing such an input increments it and changes neither the current
\* manifest ID, the maps, the Timeline nor the persisted documents, and sets no
\* changed flag; a missing (null) input is dropped by updateAvailable, which
\* leaves the held documents, the process flags and the error counter as they are
C8_FailedBuildCounted ==
    [][/\ pc' \in ProcessedPositions => errorCount' = rejected'.failed
       /\ pc = "procDM" /\ pc' = "procCS" /\ mProcessDecoderManifest
             /\ ~mDecoderManifest.ok =>
                /\ errorCount' = errorCount + 1
                /\ ~decoderManifestChanged'
                /\ passLog' = <<>>
                /\ UNCHANGED <<mCurrentDecoderManifestID, mapVars, persistedDecoderManifest,
                               persistedCollectionSchemeList>>
       /\ pc = "procCS" /\ mProcessCollectionScheme /\ ~mCollectionSchemeList.ok =>
                /\ errorCount' = errorCount + 1
                /\ ~enabledCollectionSchemeMapChanged'
                /\ UNCHANGED <<mCurrentDecoderManifestID, mapVars, persistedDecoderManifest,
                               persistedCollectionSchemeList, passLog>>
       /\ pc = "avail" /\ pc' = "procDM" /\ mDecoderManifestAvailable
             /\ mDecoderManifestInput.ptr = 0 =>
                UNCHANGED <<mDecoderManifest, mProcessDecoderManifest, errorCount,
                            mCurrentDecoderManifestID, mapVars, persistedDecoderManifest,
                            persistedCollectionSchemeList>>
       /\ pc = "avail" /\ pc' = "procDM" /\ mCollectionSchemeAvailable
             /\ mCollectionSchemeListInput.ptr = 0 =>
                UNCHANGED <<mCollectionSchemeList, mProcessCollectionScheme, errorCount,
                            mCurrentDecoderManifestID, mapVars, persistedDecoderManifest,
                            persistedCollectionSchemeList>>]_vars

\* C8 witness: a pass ends after a missing input was dropped and a manifest and a
\* list that fail to build were counted
C8_InputsRejected ==
    /\ pc = "endpass"
    /\ rejected.missing > 0
    /\ rejected.failed = 2
    /\ errorCount = 2
    /\ ~mDecoderManifest.ok /\ mDecoderManifest.ptr \in dmBuilt
    /\ ~mCollectionSchemeList.ok /\ mCollectionSchemeList.ptr \in csBuilt

\* C9: updateAvailable takes over the last posted manifest and the last posted
\* list; a manifest or list that was overwritten in its slot while pending is
\* never held, built or persisted by the manager, and no scheme of such a list is
\* loaded; the current manifest ID changes only when the manifest taken over is
\* processed, and then becomes the ID of that manifest
C9_SingleSlotMailbox ==
    [][/\ dmBuilt' \cap dmOverwritten' = {}
       /\ csBuilt' \cap csOverwritten' = {}
       /\ mDecoderManifest'.ptr \notin dmOverwritten'
       /\ mCollectionSchemeList'.ptr \notin csOverwritten'
       /\ persistedDecoderManifest'.ptr \notin dmOverwritten'
       /\ persistedCollectionSchemeList'.ptr \notin csOverwritten'
       /\ pc = "avail" /\ pc' = "procDM" /\ mDecoderManifestAvailable
             /\ mDecoderManifestInput.ptr # 0 =>
             mDecoderManifest'.ptr = dmPosts
       /\ pc = "avail" /\ pc' = "procDM" /\ mCollectionSchemeAvailable
             /\ mCollectionSchemeListInput.ptr # 0 =>
             mCollectionSchemeList'.ptr = csPosts
       /\ mCurrentDecoderManifestID' # mCurrentDecoderManifestID =>
             /\ pc = "procDM"
             /\ mDecoderManifest.ptr \notin dmOverwritten
             /\ mCurrentDecoderManifestID' = mDecoderManifest.id
       /\ <<mEnabledCollectionSchemeMap, mIdleCollectionSchemeMap>>'
             # <<mEnabledCollectionSchemeMap, mIdleCollectionSchemeMap>> =>
             \/ pc = "checkLoop"
             \/ /\ pc = "procCS"
                /\ mCollectionSchemeList.ptr \notin csOverwritten
                /\ LoadedSchemes' \subseteq Range(mCollectionSchemeList.schemes)]_vars

\* C9 witness: a pending manifest and a pending list were overwritten, and the
\* values posted last were taken over, built and put to use
C9_LastPostTaken ==
    /\ pc = "endpass"
    /\ dmOverwritten # {} /\ mDecoderManifest.ptr = dmPosts /\ dmPosts \in dmBuilt
    /\ csOverwritten # {} /\ mCollectionSchemeList.ptr = csPosts /\ csPosts \in csBuilt
    /\ mCurrentDecoderManifestID = mDecoderManifest.id
    /\ LoadedSchemes # {}

\* C10: the checkin list handed over in a pass holds, once each, the IDs of the
\* schemes in the Enabled map and in the Idle map and the current manifest ID when
\* one is set, as they are at that moment, and nothing else
C10_CheckinCompleteness ==
    pc = "endpass" /\ "checkinDocuments" \in Range(passLog) =>
        /\ Range(checkinMsg) =
               (DOMAIN mEnabledCollectionSchemeMap) \cup (DOMAIN mIdleCollectionSchemeMap)
                   \cup (IF mCurrentDecoderManifestID # ""
                         THEN {mCurrentDecoderManifestID} ELSE {})
        /\ Len(checkinMsg) = Cardinality(Range(checkinMsg))

\* C10 witness: a checkin was handed over while a scheme was Enabled, another one
\* Idle and a manifest set
C10_CheckinOfEveryKind ==
    /\ pc = "endpass"
    /\ "checkinDocuments" \in Range(passLog)
    /\ mEnabledCollectionSchemeMap # EmptyMap
    /\ mIdleCollectionSchemeMap # EmptyMap
    /\ mCurrentDecoderManifestID # ""
    /\ Len(checkinMsg) = 3

\* the IDs a checkin has to list: the Enabled schemes, the Idle schemes and the
\* current manifest when one is set
LoadedDocuments ==
    (DOMAIN mEnabledCollectionSchemeMap) \cup (DOMAIN mIdleCollectionSchemeMap)
        \cup (IF mCurrentDecoderManifestID # "" THEN {mCurrentDecoderManifestID} ELSE {})

\* C11: when a pass completes, the checkin list last handed to the checkin sender
\* holds the IDs of the Enabled schemes, of the Idle schemes and of the current
\* manifest, also after a pass that changed only the Idle map
C11_CheckinFollowsEveryChange ==
    pc = "endpass" => Range(checkinMsg) = LoadedDocuments

\* the loaded schemes whose decoder manifest ID differs from the current one
MismatchedSchemes == {cs \in LoadedSchemes : cs.dm # mCurrentDecoderManifestID}

\* C12: when a pass completes, a loaded scheme whose decoder manifest ID differs
\* from the current manifest ID is listed in the checkin list known to the checkin
\* sender and is not among the active schemes last given to the listeners; and the
\* step that changes the manifest ID leaves the Enabled map and the Idle map alone
C12_MismatchedSchemeKeptNotActive ==
    [][/\ pc' = "endpass" =>
             \A cs \in MismatchedSchemes' :
                 /\ cs.id \in Range(checkinMsg')
                 /\ cs \notin Range(activeCollectionSchemes')
       /\ mCurrentDecoderManifestID' # mCurrentDecoderManifestID =>
             /\ mEnabledCollectionSchemeMap' = mEnabledCollectionSchemeMap
             /\ mIdleCollectionSchemeMap' = mIdleCollectionSchemeMap]_vars

\* the part of C12 about the listeners alone: when a pass completes, every active
\* scheme last given to the listeners refers to the current manifest
C12_ActiveSchemesInSync ==
    pc = "endpass" =>
        \A i \in DOMAIN activeCollectionSchemes :
            activeCollectionSchemes[i].dm = mCurrentDecoderManifestID

\* the listener calls that publish the three extracted artifacts
ArtifactCalls == {"decoderDictionary", "inspectionMatrix", "fetchMatrix"}

\* C13 (as stated): the first pass after startup publishes the Decoder Dictionary,
\* the Inspection Matrix and the Fetch Matrix to the listeners
C13_FirstPassPublishes ==
    [][pc = "checkin" /\ initialCheckinDocumentsUpdate =>
          ArtifactCalls \subseteq Range(passLog')]_vars

\* C13 (amended): a pass publishes the three artifacts exactly when the manifest or
\* the Enabled map changed in it, on the first pass as on any other; what the
\* first pass does in any case is hand the checkin documents to the checkin
\* sender, which a later pass does only when the manifest or the Enabled map changed
C13_FirstPassChecksIn ==
    [][pc = "checkin" =>
          /\ IF decoderManifestChanged \/ enabledCollectionSchemeMapChanged
             THEN ArtifactCalls \subseteq Range(passLog')
             ELSE ArtifactCalls \cap Range(passLog') = {}
          /\ "checkinDocuments" \in Range(passLog') <=>
                 \/ decoderManifestChanged
                 \/ enabledCollectionSchemeMapChanged
                 \/ initialCheckinDocumentsUpdate
          /\ initialCheckinDocumentsUpdate => checkinMsg' = updateCheckinDocuments]_vars

\* C13 witness: the first pass has ended with nothing changed: the checkin
\* documents were handed over and no artifact was published
C13_FirstPassCheckinOnly ==
    /\ pc = "endpass"
    /\ ~decoderManifestChanged /\ ~enabledCollectionSchemeMapChanged
    /\ passLog = <<"checkinDocuments">>
    /\ ~initialCheckinDocumentsUpdate

\* the signals that decode from frame (or PID) f of a protocol and are collected
\* by a scheme that is Enabled
CollectedFrom(protocol, f) ==
    {s \in SignalIDs :
        /\ decoderManifestFormats[s].protocol = protocol
        /\ decoderManifestFormats[s].frame = f
        /\ decoderManifestFormats[s].decoded
        /\ \E id \in SchemeIDs :
              collectSignals[id].state = "Enabled" /\ s \in collectSignals[id].signals}

\* C14: a frame or PID is in its dictionary exactly when a signal of an Enabled
\* scheme decodes from it, and an included frame lists only those signals
C14_DictionaryMinimal ==
    decoderDictionaryMap # <<>> =>
        \A protocol \in {"RAW_SOCKET", "OBD"} :
            \A f \in CANRawFrameIDs \cup PIDs :
                /\ f \in DOMAIN decoderDictionaryMap[protocol].methods
                       <=> CollectedFrom(protocol, f) # {}
                /\ f \in DOMAIN decoderDictionaryMap[protocol].methods
                       => decoderDictionaryMap[protocol].methods[f] = CollectedFrom(protocol, f)

\* frame 0x200 is decoded by the manifest and collected only by an Idle scheme,
\* frame 0x100 is in the dictionary with fewer signals than the manifest decodes
C14_FrameLeftOut ==
    /\ decoderDictionaryMap # <<>>
    /\ \E s \in SignalIDs :
          /\ decoderManifestFormats[s] = [protocol |-> "RAW_SOCKET", frame |-> "0x200", decoded |-> TRUE]
          /\ \E id \in SchemeIDs :
                collectSignals[id].state = "Idle" /\ s \in collectSignals[id].signals
    /\ "0x200" \notin DOMAIN decoderDictionaryMap["RAW_SOCKET"].methods
    /\ "0x100" \in DOMAIN decoderDictionaryMap["RAW_SOCKET"].methods
    /\ \E s \in SignalIDs :
          /\ decoderManifestFormats[s] = [protocol |-> "RAW_SOCKET", frame |-> "0x100", decoded |-> TRUE]
          /\ s \notin decoderDictionaryMap["RAW_SOCKET"].methods["0x100"]

\* C15: in a built list two references to the same (signal ID, signal path)
\* pair, in the same or in different schemes, have the same internal signal ID,
\* and that ID has the marker bit of internal IDs
C15_PartialSignalIdentity ==
    collectSignalIDs # <<>> =>
        \A i, j \in SchemeIDs :
            \A k \in DOMAIN signalInformation[i], l \in DOMAIN signalInformation[j] :
                LET a == signalInformation[i][k]
                    b == signalInformation[j][l]
                IN  a.signal_path # <<>> /\ b.signal_path # <<>> =>
                        /\ HasMarker(collectSignalIDs[i][k])
                        /\ a = b => collectSignalIDs[i][k] = collectSignalIDs[j][l]
                        /\ a # b => collectSignalIDs[i][k] # collectSignalIDs[j][l]

\* two schemes were built with the same partial signal, after another one
C15_SamePartialSignalInTwoSchemes ==
    /\ collectSignalIDs # <<>>
    /\ Len(signalInformation["P1"]) = 2
    /\ Len(signalInformation["P2"]) = 2
    /\ signalInformation["P1"][2] = signalInformation["P2"][2]
    /\ signalInformation["P1"][2].signal_path # <<>>
    /\ signalInformation["P1"][1].signal_path # <<>>
    /\ signalInformation["P1"][1] # signalInformation["P1"][2]
    /\ collectSignalIDs["P1"][2] = collectSignalIDs["P2"][2]
    /\ collectSignalIDs["P1"][2].top = 1
    /\ collectSignalIDs["P1"][2] # collectSignalIDs["P1"][1]
\* C16: a frame that was read from the socket while the RAW_SOCKET dictionary
\* was null (set to null and no other dictionary set since) is never passed to
\* the consumer
C16_NoFrameWhileDictionaryNull ==
    processMessage # NoCall => ~processMessage.readWhileNull

\* C17 as stated: of the batches read after the wake-up from the sleep on a null
\* dictionary exactly the first one is discarded
C17_FirstBatchDiscarded ==
    [][canPc = "frames" /\ msgIndex' = msgIndex + 1 =>
           (mReceivedMessages' = mReceivedMessages <=> batchesSinceWake = 1)]_vars

\* C17: after the wake-up from the sleep on a null dictionary the frames of
\* every batch up to and including the first batch that is not full are
\* discarded, the frames of the batches after that one are passed on, and a
\* reader that never slept discards nothing
C17_DiscardedUntilDrained ==
    [][canPc = "frames" /\ msgIndex' = msgIndex + 1 =>
           (mReceivedMessages' = mReceivedMessages <=> batchesSinceWake >= 1 /\ ~drained)]_vars

\* the second batch after the wake-up follows a full one and is being discarded
C17_SecondBatchDiscarded ==
    /\ canPc = "frames"
    /\ batchesSinceWake = 2
    /\ ~drained
    /\ wokeUpFromSleep
    /\ msgIndex = 1
    /\ mReceivedMessages = 0

\* C18: a frame that is passed on with a timestamp lower than the one of the
\* frame passed on before it increments the non-monotonic counter (any other
\* frame leaves the counter), and it is passed to the consumer with its own
\* timestamp, which becomes the timestamp to compare the next frame with
C18_NonMonotonicCountedAndPassed ==
    [][canPc = "frames" /\ msgIndex' = msgIndex + 1 /\ ~wokeUpFromSleep =>
           LET timestamp == msg[msgIndex + 1] IN
           /\ notTimeMonotonicFrames' =
                  notTimeMonotonicFrames + (IF timestamp < lastFrameTime THEN 1 ELSE 0)
           /\ mReceivedMessages' = mReceivedMessages + 1
           /\ processMessage'.timestamp = timestamp
           /\ lastFrameTime' = timestamp]_vars

\* a frame older than the one before it was counted and passed on
C18_OlderFramePassed ==
    /\ notTimeMonotonicFrames = 1
    /\ mReceivedMessages = 2
    /\ msg = <<2, 1>>
    /\ msgIndex = 2
    /\ processMessage.timestamp = 1
    /\ lastFrameTime = 1

\* C19: a recvmmsg call that fails with ENETDOWN or ENETUNREACH is reported as
\* an error and the reader goes on with its loop; one that fails with ENODEV
\* raises the fatal error and ends doWork, after which no frame is read or
\* passed on
C19_NetworkDownGoesOnRemovedEnds ==
    [][/\ canPc = "recv" /\ canPc' # "recv" /\ nmsgs' = -1 =>
             /\ errno' \in {"ENETDOWN", "ENETUNREACH"} =>
                    /\ canLog' = "error: Network interface went down or unreachable"
                    /\ canPc' = "frames"
             /\ errno' = "ENODEV" =>
                    /\ canLog' = "fatal: Network interface was removed"
                    /\ canPc' = "done"
             /\ errno' = "EAGAIN" => canLog' = "" /\ canPc' = "frames"
       /\ canPc = "frames" /\ nmsgs = -1 => canPc' \in {"frames", "idle"}
       /\ canPc = "done" => UNCHANGED <<canPc, canLocalVars, canOutVars, recvCalls>>]_vars

\* the reader went on after the network was down, passed frames on, and ended
\* when the interface was removed
C19_EndedAfterNetworkDown ==
    /\ canPc = "done"
    /\ errno = "ENODEV"
    /\ canLog = "fatal: Network interface was removed"
    /\ networkWasDown
    /\ mReceivedMessages > 0

\* C20: once stop() is called on a running worker (Policy Manager, CAN reader or
\* OBD module), doWork returns and stop() gets through its join, in whatever
\* state the worker was
C20_StopCompletes == stopPc # "idle" ~> stopPc = "stopped"

\* stop() found the Policy Manager waiting for a notification on an empty
\* Timeline, and has returned
C20_StoppedWhileWaiting ==
    /\ stopPc = "stopped"
    /\ stopFound = "waitNotify"
    /\ pc = "done"
    /\ ~mShouldStop

\* C21: in every discovery round the first autoDetectECUs call broadcasts with
\* 11 bit IDs; a second call, with 29 bit IDs, is made only after the 11 bit call
\* collected no response; and when the 11 bit call collected a response there is
\* no 29 bit call and every ECU is set up with 11 bit IDs.
C21_ElevenBitFirst ==
    /\ Len(attempts) <= 2
    /\ Len(attempts) >= 1 => ~attempts[1].extended
    /\ Len(attempts) = 2 => attempts[2].extended /\ attempts[1].responses = 0
    /\ (attempts # <<>> /\ attempts[1].responses > 0) =>
          /\ Len(attempts) = 1
          /\ \A i \in 1..Len(mECUs) : ~mECUs[i].isExtendedID

\* ECUs were set up after they answered the 11 bit broadcast
C21_AnsweredElevenBit ==
    /\ obdPc = "acquireLoop"
    /\ attempts # <<>>
    /\ attempts[1].broadcast
    /\ attempts[1].responses > 0
    /\ mECUs # <<>>

\* the tx ID of the claim, in arithmetic: 0x18DA00F1 has no bit in its second
\* byte and the rx IDs from 0x18DAF100 on differ in their lowest byte only
C22_TxID(extended, rx) ==
    IF extended THEN 416940273 + 256 * (rx - 417001728) ELSE rx - 8

\* getTxIDByRxID on all the rx IDs of the two ranges
C22_TxIDOfAllRxIDs ==
    /\ \A rx \in 2024..2031 : getTxIDByRxID(FALSE, rx) = C22_TxID(FALSE, rx)
    /\ \A rx \in 417001728..417001983 : getTxIDByRxID(TRUE, rx) = C22_TxID(TRUE, rx)

\* C22: an ECU with rx ID in 0x7E8..0x7EF has tx ID rx - 8, one with rx ID in
\* 0x18DAF100..0x18DAF1FF has tx ID 0x18DA00F1 | ((rx & 0xFF) << 8); only rx IDs
\* of these ranges are accepted; and initECUs creates exactly one ECU for each
\* distinct accepted rx ID.
C22_OneECUPerRxID ==
    /\ C22_TxIDOfAllRxIDs
    /\ \A i \in 1..Len(canIDResponses) :
          IF isExtendedID THEN canIDResponses[i] \in 417001728..417001983
          ELSE canIDResponses[i] \in 2024..2031
    /\ \A i \in 1..Len(mECUs) :
          /\ mECUs[i].txID = C22_TxID(mECUs[i].isExtendedID, mECUs[i].rxID)
          /\ \A j \in 1..Len(mECUs) : mECUs[i].rxID = mECUs[j].rxID => i = j
    /\ (obdPc = "acquireLoop" /\ attempts # <<>>) =>
          {mECUs[i].rxID : i \in 1..Len(mECUs)} = {canIDResponses[i] : i \in 1..Len(canIDResponses)}

\* an ECU with 29 bit IDs answered the broadcast twice and was set up once
C22_AnsweredTwice ==
    /\ obdPc = "acquireLoop"
    /\ Len(canIDResponses) = 2
    /\ Len(mECUs) = 1
    /\ mECUs[1].isExtendedID
    /\ mECUs[1].rxID = 417001983
    /\ mECUs[1].txID = 417005553

\* C23: a socket failure during the discovery (socket, ioctl, bind, write, poll
\* or recv) yields an empty set of ECUs: no ECU is set up from the responses of
\* the autoDetectECUs call that failed, and the round ends in the retry wait
C23_FailedDiscoveryIsEmpty ==
    (\E i \in 1..Len(attempts) :
        attempts[i].failed \in SocketCalls /\ attempts[i].responses > 0)
    => (obdPc # "initECUs" /\ mECUs = <<>>)

\* the ECUs that are to request the PID
C24_AssignedTo(ecus, pid) == {i \in 1..Len(ecus) : pid \in ecus[i].pidsToRequest}

\* the ECU a requested PID belongs to: the first one that supports it
C24_FirstSupporting(ecus, pid) ==
    {i \in 1..Len(ecus) :
        /\ pid \in ecus[i].supportedPIDs
        /\ \A j \in 1..(i - 1) : pid \notin ecus[j].supportedPIDs}

\* C24: after every step, each PID is assigned to at most one ECU, which is the
\* first ECU in the order of mECUs that supports it, and only PIDs the dictionary
\* requests are assigned; a PID that was assigned to an ECU is not assigned to
\* another ECU by the step, and what an ECU supports does not change once it is
\* known, so that this also holds across dictionary updates; and no ECU is asked
\* for its supported PIDs more than once.
C24_AssignedToFirstSupportingECU ==
    [][/\ \A pid \in EmissionPIDs :
             /\ Cardinality(C24_AssignedTo(mECUs', pid)) <= 1
             /\ C24_AssignedTo(mECUs', pid) \subseteq C24_FirstSupporting(mECUs', pid)
             /\ C24_AssignedTo(mECUs', pid) # {} => pid \in mPIDsRequestedByDecoderDict'
             /\ \A i \in C24_AssignedTo(mECUs, pid), j \in C24_AssignedTo(mECUs', pid) : i = j
       /\ \A i \in 1..Len(mECUs) :
             /\ Len(mECUs') >= i
             /\ mECUs[i].hasSupportedPIDs =>
                   /\ mECUs'[i].hasSupportedPIDs
                   /\ mECUs'[i].supportedPIDs = mECUs[i].supportedPIDs
       /\ \A i \in 1..Len(mECUs') : mECUs'[i].supportedPIDRequests <= 1]_vars

\* two ECUs support the PID the dictionary requests, and the first one has it
C24_FirstOfTwo ==
    /\ Len(mECUs) = 2
    /\ hasAcquiredSupportedPIDs
    /\ mPIDsRequestedByDecoderDict = {12}
    /\ mECUs[1].supportedPIDs = {12}
    /\ mECUs[2].supportedPIDs = {12}
    /\ mECUs[1].supportedPIDRequests = 1
    /\ mECUs[2].supportedPIDRequests = 1
    /\ mECUs[1].pidsToRequest = {12}
    /\ mECUs[2].pidsToRequest = {}

\* C25 as stated: at an expiry of the DTC timer the stored DTCs are requested
\* from every ECU and a DTCInfo is pushed if and only if the DTC requests are on
C25_PushedIffEnabled ==
    dtcCycle.expired =>
        IF dtcCycle.enabled
        THEN /\ dtcCycle.requested = {mECUs[i].rxID : i \in 1..Len(mECUs)}
             /\ dtcCycle.pushed # <<>>
        ELSE /\ dtcCycle.requested = {}
             /\ dtcCycle.pushed = <<>>

\* C25: at an expiry of the DTC timer the stored DTCs are requested from every
\* ECU if and only if the DTC requests are on at that moment, and a DTCInfo is
\* pushed if and only if they are on and the request to at least one ECU was
\* successful; it is pushed also when it holds no DTC.
C25_PushedAfterSuccessfulRequest ==
    dtcCycle.expired =>
        /\ dtcCycle.requested =
              IF dtcCycle.enabled THEN {mECUs[i].rxID : i \in 1..Len(mECUs)} ELSE {}
        /\ dtcCycle.pushed # <<>> <=> (dtcCycle.enabled /\ dtcCycle.successful)
        /\ dtcCycle.successful => dtcCycle.enabled

\* a DTCInfo without a DTC was pushed
C25_PushedWithoutDTC ==
    /\ dtcCycle.expired
    /\ dtcCycle.enabled
    /\ dtcCycle.requested # {}
    /\ dtcCycle.pushed = <<[mDTCCodes |-> {}]>>

\* C26: no thread but the OBD worker thread (doWork) does I/O on the socket of
\* an ECU
C26_OnlyWorkerDoesIO == ecuIO \subseteq {"doWork"}

\* C27: checkAndSendRetrievedData is called only in an iteration in which
\* isAlive() returned true; in an iteration in which the upload of the persisted
\* data is due and isAlive() returned false it is not called, no payload is
\* retrieved, and the persistency keeps its payloads.
C27_RetrievedOnlyWhenAlive ==
    [][senderPc = "process" /\ senderPc' = "loop" =>
           /\ uploadCheck'.called => (connectivityAlive /\ uploadCheck'.alive)
           /\ checkAndSendRetrievedDataCalls' # checkAndSendRetrievedDataCalls
                 => uploadCheck'.called
           /\ ~uploadCheck'.called =>
                 /\ uploadCheck'.retrieved = {}
                 /\ persistedPayloads' = persistedPayloads
                 /\ uploadedPersistedDataOnce' = uploadedPersistedDataOnce
           /\ (uploadCheck'.due /\ ~connectivityAlive) => ~uploadCheck'.called]_vars

\* the upload was due without a connection, and the stored payload stayed
C27_DueButNotAlive ==
    /\ uploadCheck.due
    /\ ~uploadCheck.alive
    /\ ~uploadCheck.called
    /\ persistedPayloads = {"payload1"}
    /\ checkAndSendRetrievedDataCalls = 0

\* C28: after a pass the thread waits without a time limit when the Timeline is
\* empty, does not wait when the time of the top entry is not after the current
\* time, and else waits min(top - now, idle timeout) ms, which is never more than
\* the idle timeout nor more than the time left until the top entry, whatever
\* the size of that time
C28_WaitIsMinOfRemainingAndIdle ==
    waitResult # NoWait =>
        IF waitCall.empty THEN waitResult.kind = "waitNotify"
        ELSE IF waitCall.top <= waitCall.currentSystemTime THEN waitResult.kind = "avail"
        ELSE /\ waitResult.kind = "waitTimed"
             /\ waitResult.ms <= waitCall.mIdleTimeMs
             /\ waitResult.ms <= waitCall.top - waitCall.currentSystemTime
             /\ waitResult.ms =
                   IF waitCall.top - waitCall.currentSystemTime < waitCall.mIdleTimeMs
                   THEN waitCall.top - waitCall.currentSystemTime
                   ELSE waitCall.mIdleTimeMs

\* the Idle map holds the scheme cs
C29_IdleWith(cs) ==
    cs.id \in DOMAIN mIdleCollectionSchemeMap /\ mIdleCollectionSchemeMap[cs.id] = cs

\* the Enabled map holds the scheme cs
C29_EnabledWith(cs) ==
    cs.id \in DOMAIN mEnabledCollectionSchemeMap /\ mEnabledCollectionSchemeMap[cs.id] = cs

\* a received list changed or removed the scheme cs: the latest list that was
\* processed does not hold it
C29_ChangedOrRemoved(cs) == cs \notin Range(persistedCollectionSchemeList.schemes)

\* at the end of checkTimeLine no Idle scheme has start <= checkTime < expiry, and
\* a change that checkTimeLine reports is a change of the pass
C29_EndOfCheckTimeLine ==
    pc = "checkin" =>
        /\ \A id \in DOMAIN mIdleCollectionSchemeMap :
              LET cs == mIdleCollectionSchemeMap[id]
              IN  ~(cs.start <= checkTime /\ checkTime < cs.expiry)
        /\ ret => enabledCollectionSchemeMapChanged

\* a step of checkTimeLine that takes a scheme out of the Idle map puts it in the
\* Enabled map and sets ret, which stays set up to the end of the function
C29_CheckTimeLineStep ==
    pc = "checkLoop" =>
        /\ ret => ret'
        /\ \A id \in DOMAIN mIdleCollectionSchemeMap :
              id \notin DOMAIN mIdleCollectionSchemeMap' =>
                  /\ id \in DOMAIN mEnabledCollectionSchemeMap'
                  /\ mEnabledCollectionSchemeMap'[id] = mIdleCollectionSchemeMap[id]
                  /\ ret'

\* the thread does not sleep past the start time of an Idle scheme that has not
\* expired: while it waits, the clock has not passed that start time
C29_NoSleepPastStart ==
    pc \in {"waitNotify", "waitTimed"} =>
        \A id \in DOMAIN mIdleCollectionSchemeMap :
            LET cs == mIdleCollectionSchemeMap[id]
            IN  now < cs.expiry => now <= cs.start

\* C29: a scheme in the Idle map with start time S < expiry E, which no later
\* received list changes or removes, is moved to the Enabled map by the first pass
\* whose clock value lies in [S, E), and that pass reports a change of the Enabled
\* map; when the thread keeps running and the clock advances (a pass takes no time
\* and a timed wait ends at the top of the Timeline at the latest), such a pass
\* happens: the scheme, Idle before its expiry, is Enabled before its expiry
C29_IdleSchemeIsEnabledOnTime ==
    /\ []C29_EndOfCheckTimeLine
    /\ [][C29_CheckTimeLineStep]_vars
    /\ []C29_NoSleepPastStart
    /\ \A cs \in UNION {Range(v) : v \in TimelineVectors} :
          (C29_IdleWith(cs) /\ now < cs.expiry)
              ~> \/ C29_EnabledWith(cs) /\ cs.start <= now /\ now < cs.expiry
                 \/ C29_ChangedOrRemoved(cs)

\* checkTimeLine has just moved a scheme whose start time lay in the future when
\* its list was processed, in a pass at a clock value in [start, expiry)
C29_EnabledByTimeline ==
    /\ pc = "checkin"
    /\ ret
    /\ \E id \in DOMAIN mEnabledCollectionSchemeMap :
          /\ <<id, "start", "timeline">> \in transitions
          /\ mEnabledCollectionSchemeMap[id].start > 0
          /\ mEnabledCollectionSchemeMap[id].start <= checkTime
          /\ checkTime < mEnabledCollectionSchemeMap[id].expiry

\* the manifest of the p-th call of onDecoderManifestUpdate is pending in the slot
C30_ManifestPending(p) == mDecoderManifestAvailable /\ mDecoderManifestInput.ptr = p

\* the list of the p-th call of onCollectionSchemeUpdate is pending in the slot
C30_ListPending(p) == mCollectionSchemeAvailable /\ mCollectionSchemeListInput.ptr = p

\* C30: a manifest or a scheme list posted while the manager thread runs is
\* eventually processed by a pass (build() is called on it), unless a later post to
\* the same slot replaces it while it is pending; this includes a post that arrives
\* while the thread is executing a pass
C30_PostedIsProcessedOrReplaced ==
    /\ \A p \in 1..MaxDmPosts :
          C30_ManifestPending(p) ~> (p \in dmBuilt \/ p \in dmOverwritten)
    /\ \A p \in 1..MaxCsPosts :
          C30_ListPending(p) ~> (p \in csBuilt \/ p \in csOverwritten)

\* the first manifest was processed by an earlier pass, and the second one arrived
\* while the thread is executing a pass that ends in a wait for a notification
C30_PostedDuringPass ==
    /\ pc = "procDM"
    /\ C30_ManifestPending(2)
    /\ mWaitNotify
    /\ 1 \in dmBuilt
    /\ ~mProcessDecoderManifest
    /\ TimeLineEmpty(mTimeLine)

\* C31: at all times no scheme ID is present in both the Enabled map and the Idle
\* map, for any received list, also one that holds the same scheme ID twice
C31_NoSchemeInBothMaps ==
    (DOMAIN mEnabledCollectionSchemeMap) \cap (DOMAIN mIdleCollectionSchemeMap) = {}

\* the Timeline holds the entry (t, id)
C32_Pending(t, id) == mTimeLine[<<t, id>>] > 0

\* C32: after every pass the Timeline holds, for every scheme of the Idle map, the
\* entries (start_time, id) and (expiry_time, id), and for every scheme of the
\* Enabled map the entry (expiry_time, id), with the scheme's current times
C32_NextTransitionPending ==
    pc = "endpass" =>
        /\ \A id \in DOMAIN mIdleCollectionSchemeMap :
              /\ C32_Pending(mIdleCollectionSchemeMap[id].start, id)
              /\ C32_Pending(mIdleCollectionSchemeMap[id].expiry, id)
        /\ \A id \in DOMAIN mEnabledCollectionSchemeMap :
              C32_Pending(mEnabledCollectionSchemeMap[id].expiry, id)

\* C33: whenever the current manifest ID is non-empty, the manifest object held for
\* the extraction (mDecoderManifest) is a successfully built manifest whose ID is
\* the current manifest ID; stated where doWork extracts and publishes, after the
\* received manifest of the pass has been processed
C33_HeldManifestIsCurrent ==
    (pc \in {"checkin", "endpass"} /\ mCurrentDecoderManifestID # "") =>
        /\ mDecoderManifest.ptr # 0
        /\ mDecoderManifest.ok
        /\ mDecoderManifest.id = mCurrentDecoderManifestID

\* C34: when the Enabled map and the Idle map are both empty,
\* rebuildMapsandTimeLine(t) and updateMapsandTimeLine(t) applied to the same list
\* of schemes with distinct IDs give the same Enabled map, the same Idle map, the
\* same pushed Timeline entries and the same return value; stated on the step of
\* doWork that processes a list while no scheme is loaded
C34_RebuildEqualsUpdate ==
    [][(/\ pc = "procCS"
        /\ pc' = "check"
        /\ mProcessCollectionScheme
        /\ mCollectionSchemeList.ptr # 0
        /\ mCollectionSchemeList.ok
        /\ ~isCollectionSchemeLoaded)
       => LET st0 == MapState(mEnabledCollectionSchemeMap, mIdleCollectionSchemeMap,
                              mTimeLine, FALSE)
              r == rebuildMapsandTimeLine(st0, mCollectionSchemeList.schemes, now')
              u == updateMapsandTimeLine(st0, mCollectionSchemeList.schemes, now')
          IN  /\ r = u
              /\ mEnabledCollectionSchemeMap' = u.enabled
              /\ mIdleCollectionSchemeMap' = u.idle
              /\ mTimeLine' = u.timeline
              /\ enabledCollectionSchemeMapChanged' = u.ret]_vars

\* the first list that was processed put one scheme in the Enabled map and one in
\* the Idle map while stale entries of no loaded scheme were absent or present
C34_RebuiltBothMaps ==
    /\ pc = "check"
    /\ Cardinality(csBuilt) = 1
    /\ persistedCollectionSchemeList.ptr \in csBuilt
    /\ mEnabledCollectionSchemeMap # EmptyMap
    /\ mIdleCollectionSchemeMap # EmptyMap

\* every scheme of the Enabled map and of the Idle map refers to the current manifest
C35_AllReferToCurrentManifest ==
    \A m \in {mEnabledCollectionSchemeMap, mIdleCollectionSchemeMap} :
        \A id \in DOMAIN m : m[id].dm = mCurrentDecoderManifestID

\* C35: the list of active schemes that a pass publishes holds exactly the schemes
\* of the Enabled map, each once, when every scheme of the Enabled and Idle maps
\* refers to the current manifest ID, and is empty otherwise; it never holds an Idle
\* scheme or a scheme whose manifest ID differs from the current one
C35_ActiveListIsEnabledInSync ==
    [][(pc = "checkin" /\ pc' = "endpass" /\ documentsChanged)
       => /\ Range(activeCollectionSchemes') =
                 IF C35_AllReferToCurrentManifest
                 THEN {mEnabledCollectionSchemeMap[id] :
                          id \in DOMAIN mEnabledCollectionSchemeMap}
                 ELSE {}
          /\ Len(activeCollectionSchemes') = Cardinality(Range(activeCollectionSchemes'))
          /\ \A cs \in Range(activeCollectionSchemes') :
                /\ cs.dm = mCurrentDecoderManifestID
                /\ cs.id \notin DOMAIN mIdleCollectionSchemeMap]_vars

\* a pass has published an empty list while a scheme is Enabled, because a loaded
\* scheme refers to another manifest than the current one
C35_EmptyWhileEnabled ==
    /\ pc = "endpass"
    /\ "activeCollectionSchemes" \in Range(passLog)
    /\ activeCollectionSchemes = <<>>
    /\ mEnabledCollectionSchemeMap # EmptyMap
    /\ mCurrentDecoderManifestID # ""

\* a pass has published the Enabled schemes while another scheme is Idle
C35_PublishedEnabledOnly ==
    /\ pc = "endpass"
    /\ "activeCollectionSchemes" \in Range(passLog)
    /\ activeCollectionSchemes # <<>>
    /\ mIdleCollectionSchemeMap # EmptyMap

\* the place of the call x in the log of the pass
C36_Pos(x) == CHOOSE i \in DOMAIN passLog : passLog[i] = x

\* the call x of the pass was made after the matrix extraction and the decoder
\* dictionary extraction had completed
C36_AfterExtractions(x) ==
    \A e \in {"matrixExtractor", "decoderDictionaryExtractor"} :
        e \in Range(passLog) /\ C36_Pos(e) < C36_Pos(x)

\* the decoder dictionaries are published before the matrices, and the matrices
\* only in a pass in which the manifest or the Enabled map changed
C36_DictionaryFirst ==
    \A x \in {"inspectionMatrix", "fetchMatrix"} \cap Range(passLog) :
        /\ "decoderDictionary" \in Range(passLog)
        /\ C36_Pos("decoderDictionary") < C36_Pos(x)
        /\ decoderManifestChanged \/ enabledCollectionSchemeMapChanged

C37_NullSnapshotInBatch ==
    canPc = "frames" /\ decoderDictionary = "nullptr" /\ nmsgs > 0

\* C37: the CAN reader never calls processMessage with a null dictionary: every
\* frame handed to the consumer comes with the snapshot of mDecoderDictionary
\* taken at the start of that loop iteration, and that snapshot is not null
C37_ProcessMessageDictionaryNotNull ==
    /\ [](processMessage.dictionary # "nullptr")
    /\ [][mReceivedMessages' # mReceivedMessages =>
              /\ decoderDictionary # "nullptr"
              /\ decoderDictionary' = decoderDictionary
              /\ processMessage'.dictionary = decoderDictionary]_vars

\* a frame was handed to the consumer after the reader had slept on a null
\* dictionary and after the member was changed again
C37_FrameHandedAfterSleep ==
    /\ processMessage # NoCall
    /\ batchesSinceWake > 1
    /\ processMessage.dictionary # mDecoderDictionary

\* C38: in broadcast mode flush(count, X) drains every ECU other than X count
\* times and never X, with one shared time budget that starts at the P2 timeout,
\* never increases, is reduced by the time each drain reports and stops at 0
\* without unsigned underflow; when broadcast mode is disabled no ECU is drained
C38_FlushDrainsOthersOnSharedBudget ==
    /\ [](ecuFlushCalls[flushCall.exceptECU] = 0)
    /\ [](~flushCall.mBroadcastRequests => \A ecu \in 1..flushCall.mECUs : ecuFlushCalls[ecu] = 0)
    /\ [](flushPc = "done" /\ flushCall.mBroadcastRequests =>
              \A ecu \in 1..flushCall.mECUs :
                  ecu # flushCall.exceptECU => ecuFlushCalls[ecu] = flushCall.count)
    /\ [][flushPc = "call" /\ flushPc' # "done" => timeLeftMs' = P2_TIMEOUT_DEFAULT_MS]_vars
    /\ [][flushPc # "call" => timeLeftMs' <= timeLeftMs]_vars
    /\ [][ecuFlushCalls' # ecuFlushCalls =>
              /\ ecuFlush'.timeLeftMs = timeLeftMs
              /\ timeLeftMs' = IF ecuFlush'.timeNeededMs >= timeLeftMs THEN 0
                               ELSE timeLeftMs - ecuFlush'.timeNeededMs]_vars
    /\ [][ecuFlushCalls' = ecuFlushCalls /\ flushPc # "call" => timeLeftMs' = timeLeftMs]_vars

\* flush returned in broadcast mode after it drained two other ECUs twice, and
\* the last drain reported more time than was left
C38_BudgetUsedUp ==
    /\ flushPc = "done"
    /\ flushCall.mBroadcastRequests
    /\ flushCall.mECUs = 3
    /\ flushCall.exceptECU = 2
    /\ flushCall.count = 2
    /\ ecuFlushCalls = <<2, 0, 2>>
    /\ ecuFlush.timeNeededMs > ecuFlush.timeLeftMs
    /\ ecuFlush.timeLeftMs > 0
    /\ ecuFlush.timeLeftMs < P2_TIMEOUT_DEFAULT_MS
    /\ timeLeftMs = 0

\* C39: until checkAndSendRetrievedData has been called once the Sender Worker
\* attempts the upload of the persisted data on every wake (the call is made when
\* the connection is alive); after that it calls checkAndSendRetrievedData again
\* only when the retry interval is > 0 and at least that interval has elapsed on
\* the retry timer, so with a retry interval of 0 it is called at most once
C39_UploadRetriedOnIntervalOnly ==
    /\ [][senderPc = "process" /\ senderPc' # "process" =>
              IF ~uploadedPersistedDataOnce
              THEN /\ uploadCheck'.due
                   /\ uploadCheck'.called <=> connectivityAlive
                   /\ mRetrySendingPersistedDataTimer' = 0
              ELSE /\ uploadCheck'.called =>
                          /\ mPersistencyUploadRetryIntervalMs > 0
                          /\ mRetrySendingPersistedDataTimer >= mPersistencyUploadRetryIntervalMs
                   /\ ~uploadCheck'.due =>
                          mRetrySendingPersistedDataTimer' = mRetrySendingPersistedDataTimer]_vars
    /\ [][checkAndSendRetrievedDataCalls' # checkAndSendRetrievedDataCalls =>
              senderPc = "process" /\ uploadCheck'.called]_vars
    /\ [][senderPc = "process" /\ senderPc' # "process" /\ uploadCheck'.called =>
              \/ checkAndSendRetrievedDataCalls' = checkAndSendRetrievedDataCalls + 1
              \/ checkAndSendRetrievedDataCalls = MaxUploads]_vars
    /\ [](uploadedPersistedDataOnce <=> checkAndSendRetrievedDataCalls > 0)
    /\ [](mPersistencyUploadRetryIntervalMs = 0 => checkAndSendRetrievedDataCalls <= 1)

\* with a retry interval of 0 the thread woke up with a connection after the one
\* call of checkAndSendRetrievedData, and did not call it again
C39_NoSecondUploadWithoutInterval ==
    /\ mPersistencyUploadRetryIntervalMs = 0
    /\ checkAndSendRetrievedDataCalls = 1
    /\ uploadCheck.uploadedBefore
    /\ uploadCheck.alive
    /\ ~uploadCheck.called
    /\ senderPc = "loop"

\* the Timeline entries of a scheme ID
C40_EntriesOf(id) == {e \in Entries : e[2] = id /\ mTimeLine[e] > 0}

\* rebuildMapsandTimeLine or updateMapsandTimeLine, whichever doWork calls on the
\* list, sets ret in exactly those iterations that change the Enabled map, and
\* returns true exactly when the Enabled map has changed
C40_ListCallReturnsEnabledChanged ==
    (/\ pc = "procCS"
     /\ pc' = "check"
     /\ mProcessCollectionScheme
     /\ mCollectionSchemeList.ptr # 0
     /\ mCollectionSchemeList.ok)
    => LET list == mCollectionSchemeList.schemes
           loaded == isCollectionSchemeLoaded
           st0 == MapState(mEnabledCollectionSchemeMap, mIdleCollectionSchemeMap,
                           mTimeLine, FALSE)
           Before(i) == IF loaded THEN updateLoop(st0, SubSeq(list, 1, i - 1), 1, now')
                        ELSE rebuildLoop(st0, SubSeq(list, 1, i - 1), 1, now')
           After(i) == IF loaded THEN updateScheme(Before(i), list[i], now')
                       ELSE rebuildScheme(Before(i), list[i], now')
           looped == Before(Len(list) + 1)
           final == IF loaded
                    THEN removeMissing(looped, {list[i].id : i \in DOMAIN list})
                    ELSE looped
       IN  /\ \A i \in DOMAIN list :
                  After(i).ret <=> (Before(i).ret \/ After(i).enabled # Before(i).enabled)
           /\ final.ret <=> (looped.ret \/ final.enabled # looped.enabled)
           /\ mEnabledCollectionSchemeMap' = final.enabled
           /\ enabledCollectionSchemeMapChanged' = final.ret
           /\ enabledCollectionSchemeMapChanged' <=>
                  mEnabledCollectionSchemeMap' # mEnabledCollectionSchemeMap

\* checkTimeLine starts with ret = false and sets it in exactly those iterations
\* that change the Enabled map
C40_CheckTimeLineReturnsEnabledChanged ==
    /\ pc = "check" =>
           ~ret' /\ mEnabledCollectionSchemeMap' = mEnabledCollectionSchemeMap
    /\ pc = "checkLoop" =>
           (ret' <=> (ret \/ mEnabledCollectionSchemeMap' # mEnabledCollectionSchemeMap))

\* C40: rebuildMapsandTimeLine, updateMapsandTimeLine and checkTimeLine return
\* true if and only if the call changed the Enabled map (a scheme was added to
\* it, removed from it or replaced by a non-equal scheme); a call that changes
\* only the Idle map or only the Timeline returns false
C40_ReturnsTrueIffEnabledMapChanged ==
    /\ [][C40_ListCallReturnsEnabledChanged]_vars
    /\ [][C40_CheckTimeLineReturnsEnabledChanged]_vars

\* updateMapsandTimeLine returned false for the second list, which has left the
\* Enabled map as it was and has given an Idle scheme new times and new Timeline
\* entries next to the old ones
C40_OnlyIdleChanged ==
    /\ pc = "check"
    /\ Cardinality(csBuilt) = 2
    /\ persistedCollectionSchemeList.ptr = 2
    /\ ~enabledCollectionSchemeMapChanged
    /\ \E id \in DOMAIN mIdleCollectionSchemeMap : Cardinality(C40_EntriesOf(id)) >= 3

====
